---- MODULE Spec2Model ----
(***************************************************************************)
(* The gesture worker of AnkiGestureControl (src/gesture_worker.py): the   *)
(* frame loop of GestureController.run with smoothing, neutral-pose        *)
(* calibration, the head-gesture state machine, the hand gestures, the     *)
(* socket client (IPCClient) and the inbound recalibrate command.          *)
(*                                                                         *)
(* Time is counted in ticks of 0.05 s.  The detection options are those of *)
(* a config.json that keeps the default scroll_cooldown (0.1 s = 2 ticks)  *)
(* and sets cooldown_time = hold_min_time = nod_max_time = 0.15 s          *)
(* (3 ticks): the three are equal as in the defaults and longer than       *)
(* scroll_cooldown.  Angles are exact rationals <<numerator, denominator>> *)
(* in degrees.  Python's None is "none" for names, NoTime for times and    *)
(* <<>> for angles and results.  The hand options are swipe_max_time =     *)
(* 0.15 s (3 ticks) and swipe_threshold = 0.15 (3 units of 0.05 of the     *)
(* frame width); hand_cooldown is 0.2 s (4 ticks) or 0.  Text on the       *)
(* socket is a sequence of tokens.                                         *)
(***************************************************************************)
EXTENDS Integers, Sequences, FiniteSets, TLC

\* ------------------------------------------------------------------ bounds
\* Clock value (ticks) when the controller is constructed; time.time() is far
\* larger than any cooldown, so the first gesture is never in a cooldown.
Epoch == 10
\* Ticks the loop is followed for under the simplest configuration.
Horizon == 12
\* Ticks the loop is followed for under the other configurations.
ShortHorizon == 6
\* Longest time between two frames, in ticks.
MaxDt == 2
\* Largest smoothing_window and calibration_frames the configuration gives.
MaxWindow == 2
MaxFrames == 2
\* Most lines one read of the socket delivers.
MaxParts == 2
\* smoothing_window of the configuration the smoothing is followed under.
SmoothWindow == 3
\* Most hands one frame shows (mediapipe.hands.max_num_hands).
MaxHands == 2
\* Most ticks the clock advances between two hands of one frame.
MaxLag == 1
\* Most pieces of text one read of the socket delivers.
MaxPieces == 2
\* Most keys the detection section of a configuration file holds.
MaxKeys == 2
\* Ticks the loop is followed for in front of hands.
HandHorizon == 7
\* Ticks the loop is followed for in front of a face, hands and the peer.
ChannelHorizon == 6
\* Ticks the loop is followed for in front of a face or none, and hands.
PathHorizon == 6
\* Ticks the loop is followed for in front of a head turned every way.
AxisHorizon == 8
\* Ticks the clock is followed for where the loop runs without end; from then
\* on the frames follow each other within one tick.
LiveHorizon == 3
\* Ticks the loop is followed for in front of lines of every kind.
LineHorizon == 5
\* Most times start is called, and so most server threads.
MaxStarts == 2
\* Most messages handle_message is given.
MaxDispatch == 2

\* --------------------------------------------------- detection parameters
PITCH_THRESHOLD == 12
YAW_THRESHOLD == 20
NOD_MAX_TIME == 3
HOLD_MIN_TIME == 3
RETURN_THRESHOLD == 8
COOLDOWN_TIME == 3
SCROLL_COOLDOWN == 2
SWIPE_THRESHOLD == 3
SWIPE_MAX_TIME == 3
\* hand_cooldown of the configurations that keep a hand cooldown.
HAND_COOLDOWN_TIME == 4

NoTime == -1
None == <<>>
\* swipe_start_x when it is None.
NoX == -1

\* ------------------------------------------------------ exact arithmetic
Abs(x) == IF x < 0 THEN -x ELSE x

RECURSIVE GCD(_, _)
GCD(a, b) == IF b = 0 THEN a ELSE GCD(b, a % b)

\* The rational n/d (d # 0) in lowest terms with a positive denominator.
Rat(n, d) ==
    LET g == GCD(Abs(n), Abs(d))
        s == IF d < 0 THEN -1 ELSE 1
    IN  <<(s * n) \div g, (s * d) \div g>>

RInt(n) == <<n, 1>>
RAdd(a, b) == Rat(a[1] * b[2] + b[1] * a[2], a[2] * b[2])
RSub(a, b) == Rat(a[1] * b[2] - b[1] * a[2], a[2] * b[2])
RAbs(a) == <<Abs(a[1]), a[2]>>
RLess(a, b) == a[1] * b[2] < b[1] * a[2]
\* a * (p/q)
RScale(a, p, q) == Rat(a[1] * p, a[2] * q)
RMax(a, b) == IF RLess(a, b) THEN b ELSE a

RECURSIVE RSum(_)
RSum(s) == IF s = <<>> THEN RInt(0) ELSE RAdd(Head(s), RSum(Tail(s)))

\* np.mean of a non-empty deque.
Mean(s) == LET t == RSum(s) IN Rat(t[1], t[2] * Len(s))

\* A slip of the deque: a full deque drops its newest entry.
DequeAppendDropNewest(q, x, w) ==
    IF Len(q) >= w THEN Append(SubSeq(q, 1, Len(q) - 1), x) ELSE Append(q, x)

\* deque(maxlen = w).append(x): a full deque drops its oldest entry.
DequeAppend(q, x, w) ==
    IF Len(q) >= w THEN Append(Tail(q), x) ELSE Append(q, x)

\* ------------------------------------------------------------------ state
VARIABLES
    SMOOTHING_WINDOW,     \* detection option, fixed at construction
    calibration_frames,   \* detection option, fixed at construction
    pitch_history,        \* deque(maxlen = SMOOTHING_WINDOW)
    yaw_history,          \* deque(maxlen = SMOOTHING_WINDOW)
    neutral_pitch,        \* None until calibrated
    neutral_yaw,          \* None until calibrated
    calibration_count,
    last_gesture_time,
    gesture_start_time,   \* NoTime when unset
    current_gesture,      \* "none", "left", "right", "up", "down"
    gesture_triggered,
    gesture_type,         \* "none", "nod", "hold"
    max_deviation,
    last_scroll_time,
    head_gesture_data,    \* result of this iteration's detect_head_gesture
    now,                  \* the clock, time.time()
    pc,                   \* position of the loop: "poll", "frame", "hands";
                          \* "stopped" once an exception has left run
    construction          \* in the specification of the construction: the
                          \* configuration file, whether __init__ has read
                          \* it, and the detection options it then set; None
                          \* in the others

\* The hand gestures and the socket client.  (hand_prev_x is written once, at
\* line 306, and never read: it is left out.)
VARIABLES
    HAND_COOLDOWN,            \* detection option, fixed at construction
    last_hand_gesture_time,
    swipe_start_x,            \* NoX when unset
    swipe_start_time,         \* NoTime when unset
    connected,                \* IPCClient.connected
    wire                      \* the texts this iteration wrote to the socket

\* What the loop did, recorded for the properties below.
VARIABLES
    called,       \* detect_head_gesture was called in the last frame
    branch,       \* the path that call took
    call_pose,    \* how the pose of that call read (PoseClass)
    recalibrated, \* the last poll handled a recalibrate command
    last_pose,    \* pose of the last call since calibration: a direction it
                  \* exceeded, "near" (near neutral), "off", or "none" (no call)
    run_start,    \* clock of the first of the consecutive calls that exceeded
                  \* the threshold in direction last_pose
    run_ok,       \* that first call followed a near-neutral call, outside the
                  \* cooldown
    prev_hold,    \* the last hold event of the hold in progress, or None:
                  \* <<clock, path, path of the hold event before it,
                  \*   ticks since that event>>
    last_trigger, \* clock of the last trigger (nod or first hold event)
    trigger_gap,  \* when the last frame triggered: ticks since the trigger
                  \* before it (NoTime: no trigger, or the first one)
    recal_ctx,    \* head state found by the recalibration that started the
                  \* calibration in progress or just completed
    recal_at,     \* clock of the last recalibration that found a hold, while
                  \* no recalibration of a calibrated engine followed it
    cal_fed,      \* frames with a face since construction or recalibration,
                  \* counted up to calibration_frames + 1
    cal_raw,      \* the raw samples of those frames, until the frame after
                  \* the one that completes the calibration
    cal_pushed    \* smoothed samples calibrate_neutral collected from them

VARIABLES
    hand_log,     \* what the loop over the hands did for the last hand (no
                  \* entry outside the loop over the hands): the hand, the
                  \* clock read for it, the swipe tracker, the motion and
                  \* last_hand_gesture_time before it, and the event emitted
    hand_events,  \* the event emitted for each hand of the frame so far
                  \* ("none": no event), in the loop's order
    motion,       \* <<x, clock, last x>> of the first sample of the open-palm
                  \* motion in progress (samples whose x decreases),
                  \* or None
    send_log,     \* one entry per call of send in the last iteration: the
                  \* data, connected before it, the state of the peer, the
                  \* connect attempts it made and the texts it wrote
    rx_tail,      \* the text received since the last newline, as a reader
                  \* that buffers partial lines would hold it: <<>>, the
                  \* first half of a recalibrate line, or other text ("junk")
    rx_parts      \* the parts the last read was split into

\* The add-on's GestureServer, which starts the worker and listens to it.
\* Sockets and threads are numbered in the order start creates them, and the
\* port the system gives a socket at bind has the socket's number.
VARIABLES
    server_socket,    \* self.server_socket: 0 for None, or a socket's number
    port,             \* self.port: 0, or the port of the last getsockname
    running,          \* self.running
    worker_process,   \* None, or the worker launched: the --port argument it
                      \* was given, and the number of the start that did it
    active_conn,      \* 0 for None, or the thread that holds the connection
    server_threads,   \* position of every server thread started so far
    closed_sockets,   \* the sockets stop has closed
    host_pc,          \* position of the main thread in start or stop
    dispatched        \* per message handled: its gesture, and the methods
                      \* handed to run_on_main

calib == <<pitch_history, yaw_history, neutral_pitch, neutral_yaw,
           calibration_count>>
head == <<last_gesture_time, gesture_start_time, current_gesture,
          gesture_triggered, gesture_type, max_deviation, last_scroll_time>>
host == <<server_socket, port, running, worker_process, active_conn,
          server_threads, closed_sockets, host_pc, dispatched>>
config == <<SMOOTHING_WINDOW, calibration_frames, construction, host>>
observed == <<called, branch, call_pose, recalibrated, last_pose, run_start, run_ok,
              prev_hold, last_trigger, trigger_gap, recal_ctx, recal_at,
              cal_fed, cal_raw, cal_pushed>>
hands_state == <<last_hand_gesture_time, swipe_start_x, swipe_start_time>>
channel == <<connected, wire>>
observed_io == <<hand_log, hand_events, motion, send_log, rx_tail, rx_parts>>
vars == <<config, calib, head, head_gesture_data, now, pc, observed,
          HAND_COOLDOWN, hands_state, channel, observed_io>>

\* --------------------------------------------------------------- smoothing
\* smooth_angles: push the raw sample, return the moving averages.
smooth_angles(ph, yh, pitch, yaw, w) ==
    LET ph1 == DequeAppend(ph, pitch, w)
        yh1 == DequeAppend(yh, yaw, w)
    IN  [pitch_history |-> ph1, yaw_history |-> yh1,
         smooth_pitch |-> Mean(ph1), smooth_yaw |-> Mean(yh1)]

\* ------------------------------------------------------------- calibration
\* A slip of the collecting test: one sample too few.
CollectingOneLess(count, frames) == count < frames - 1

\* Still collecting: the guard of calibrate_neutral's first branch.
Collecting(count, frames) == count < frames

\* The neutral value taken when calibration completes.
NeutralOf(history) == Mean(history)

\* A slip of calibrate_neutral: a calibrated engine starts over.
calibrate_neutral_again(c, pitch, yaw, w, frames) ==
    IF Collecting(c.calibration_count, frames)
    THEN [c |-> [c EXCEPT
                    !.pitch_history = DequeAppend(c.pitch_history, pitch, w),
                    !.yaw_history = DequeAppend(c.yaw_history, yaw, w),
                    !.calibration_count = c.calibration_count + 1],
          ready |-> FALSE]
    ELSE IF c.neutral_pitch = None
    THEN [c |-> [c EXCEPT
                    !.neutral_pitch = NeutralOf(c.pitch_history),
                    !.neutral_yaw = NeutralOf(c.yaw_history),
                    !.pitch_history = <<>>,
                    !.yaw_history = <<>>],
          ready |-> TRUE]
    ELSE [c |-> [c EXCEPT !.neutral_pitch = None, !.neutral_yaw = None,
                          !.calibration_count = 0,
                          !.pitch_history = <<>>, !.yaw_history = <<>>],
          ready |-> FALSE]

\* calibrate_neutral on the calibration state c, a record of the five fields.
calibrate_neutral(c, pitch, yaw, w, frames) ==
    IF Collecting(c.calibration_count, frames)
    THEN [c |-> [c EXCEPT
                    !.pitch_history = DequeAppend(c.pitch_history, pitch, w),
                    !.yaw_history = DequeAppend(c.yaw_history, yaw, w),
                    !.calibration_count = c.calibration_count + 1],
          ready |-> FALSE]
    ELSE IF c.neutral_pitch = None
    THEN [c |-> [c EXCEPT
                    !.neutral_pitch = NeutralOf(c.pitch_history),
                    !.neutral_yaw = NeutralOf(c.yaw_history),
                    !.pitch_history = <<>>,
                    !.yaw_history = <<>>],
          ready |-> TRUE]
    ELSE [c |-> c, ready |-> TRUE]

\* A slip of the reset: the smoothing windows are not cleared.
RecalibrateKeepWindows(c) ==
    [c EXCEPT !.neutral_pitch = None, !.neutral_yaw = None,
              !.calibration_count = 0]

\* A slip of the recalibration: the neutral pose is kept.
RecalibrateKeepNeutral(c) ==
    [c EXCEPT !.calibration_count = 0,
              !.pitch_history = <<>>, !.yaw_history = <<>>]

\* A slip of the recalibration: neutral_yaw is kept.
RecalibratePitchOnly(c) ==
    [c EXCEPT !.neutral_pitch = None,
              !.calibration_count = 0,
              !.pitch_history = <<>>, !.yaw_history = <<>>]

\* The body of the recalibrate command (and of the 'r' key).
Recalibrate(c) ==
    [c EXCEPT !.neutral_pitch = None, !.neutral_yaw = None,
              !.calibration_count = 0,
              !.pitch_history = <<>>, !.yaw_history = <<>>]

CalibState ==
    [pitch_history |-> pitch_history, yaw_history |-> yaw_history,
     neutral_pitch |-> neutral_pitch, neutral_yaw |-> neutral_yaw,
     calibration_count |-> calibration_count]

FreshCalib ==
    [pitch_history |-> <<>>, yaw_history |-> <<>>,
     neutral_pitch |-> None, neutral_yaw |-> None,
     calibration_count |-> 0]

\* ------------------------------------------------------ head-gesture logic
\* Slips of the cooldown test: one that forgets the abandoned hold (only a
\* nod starts a cooldown), one that forgets the hold in progress.
InCooldownNodOnly(gtype, t, lgt) == gtype = "nod" /\ t - lgt < COOLDOWN_TIME
InCooldownAlways(gtype, t, lgt) == t - lgt < COOLDOWN_TIME

\* The cooldown test at the top of detect_head_gesture.
InCooldown(gtype, t, lgt) == gtype # "hold" /\ t - lgt < COOLDOWN_TIME

\* A slip of the axis arbitration: the pitch is tried whenever the yaw gave
\* no direction.
DetectDirectionEither(rel_pitch, rel_yaw) ==
    IF /\ RLess(RScale(RAbs(rel_pitch), 6, 5), RAbs(rel_yaw))
       /\ RLess(RInt(YAW_THRESHOLD), RAbs(rel_yaw))
    THEN IF RLess(RInt(0), rel_yaw) THEN "right" ELSE "left"
    ELSE IF /\ RLess(RScale(RAbs(rel_yaw), 3, 5), RAbs(rel_pitch))
            /\ RLess(RInt(PITCH_THRESHOLD), RAbs(rel_pitch))
    THEN IF RLess(RInt(0), rel_pitch) THEN "down" ELSE "up"
    ELSE "none"

\* The direction the relative pose exceeds, with the axis arbitration.
DetectDirection(rel_pitch, rel_yaw) ==
    IF RLess(RScale(RAbs(rel_pitch), 6, 5), RAbs(rel_yaw))
    THEN IF RLess(RInt(YAW_THRESHOLD), rel_yaw) THEN "right"
         ELSE IF RLess(rel_yaw, RInt(-YAW_THRESHOLD)) THEN "left"
         ELSE "none"
    ELSE IF RLess(RScale(RAbs(rel_yaw), 3, 5), RAbs(rel_pitch))
    THEN IF RLess(RInt(PITCH_THRESHOLD), rel_pitch) THEN "down"
         ELSE IF RLess(rel_pitch, RInt(-PITCH_THRESHOLD)) THEN "up"
         ELSE "none"
    ELSE "none"

\* A slip of current_deviation: the yaw whatever the direction.
DeviationYaw(dir, rel_pitch, rel_yaw) == RAbs(rel_yaw)

\* current_deviation of the detected direction (0 when there is none).
Deviation(dir, rel_pitch, rel_yaw) ==
    IF dir \in {"left", "right"} THEN RAbs(rel_yaw)
    ELSE IF dir \in {"up", "down"} THEN RAbs(rel_pitch)
    ELSE RInt(0)

NearNeutral(rel_pitch, rel_yaw) ==
    /\ RLess(RAbs(rel_pitch), RInt(RETURN_THRESHOLD))
    /\ RLess(RAbs(rel_yaw), RInt(RETURN_THRESHOLD))

\* A slip of the hold test: > for >=.
HoldDueLate(elapsed, triggered) == elapsed > HOLD_MIN_TIME /\ ~triggered

\* A sustained direction becomes a hold.
HoldDue(elapsed, triggered) == elapsed >= HOLD_MIN_TIME /\ ~triggered

\* The hold seeds last_scroll_time with this value.
ScrollSeed(t) == t - SCROLL_COOLDOWN

\* A slip of the repeat test: the scroll cooldown left out.
ScrollDueAlways(gtype, dir, t, lst) ==
    gtype = "hold" /\ dir \in {"up", "down"}

\* A slip of the repeat test: the direction left out.
ScrollDueAnyDirection(gtype, dir, t, lst) ==
    gtype = "hold" /\ t - lst >= SCROLL_COOLDOWN

\* A hold in progress fires again.
ScrollDue(gtype, dir, t, lst) ==
    /\ gtype = "hold"
    /\ dir \in {"up", "down"}
    /\ t - lst >= SCROLL_COOLDOWN

\* A return to neutral completes a nod.
NodDue(elapsed, triggered) == elapsed < NOD_MAX_TIME /\ ~triggered

HeadState ==
    [last_gesture_time |-> last_gesture_time,
     gesture_start_time |-> gesture_start_time,
     current_gesture |-> current_gesture,
     gesture_triggered |-> gesture_triggered,
     gesture_type |-> gesture_type,
     max_deviation |-> max_deviation,
     last_scroll_time |-> last_scroll_time]

\* Slips of the return to neutral: the nod keeps gesture_start_time, the
\* reset keeps gesture_type.
detect_head_gesture_slips(h, pitch, yaw, n_pitch, n_yaw, t) ==
    LET rel_pitch == RSub(pitch, n_pitch)
        rel_yaw == RSub(yaw, n_yaw)
        detected_gesture == DetectDirection(rel_pitch, rel_yaw)
        current_deviation == Deviation(detected_gesture, rel_pitch, rel_yaw)
        near_neutral == NearNeutral(rel_pitch, rel_yaw)
    IN
    IF InCooldown(h.gesture_type, t, h.last_gesture_time)
    THEN [h |-> h, result |-> None, branch |-> "cooldown"]
    ELSE IF detected_gesture # "none"
    THEN IF h.current_gesture # detected_gesture
         THEN [h |-> [h EXCEPT !.current_gesture = detected_gesture,
                               !.gesture_start_time = t,
                               !.gesture_triggered = FALSE,
                               !.max_deviation = current_deviation,
                               !.gesture_type = "none"],
               result |-> None, branch |-> "start"]
         ELSE LET h1 == [h EXCEPT !.max_deviation =
                                    RMax(h.max_deviation, current_deviation)]
                  elapsed == t - h.gesture_start_time
              IN  IF HoldDue(elapsed, h.gesture_triggered)
                  THEN [h |-> [h1 EXCEPT !.gesture_triggered = TRUE,
                                         !.gesture_type = "hold",
                                         !.last_gesture_time = t,
                                         !.last_scroll_time = ScrollSeed(t)],
                        result |-> <<detected_gesture, "hold">>,
                        branch |-> "hold"]
                  ELSE IF ScrollDue(h.gesture_type, detected_gesture, t,
                                    h.last_scroll_time)
                  THEN [h |-> [h1 EXCEPT !.last_scroll_time = t],
                        result |-> <<detected_gesture, "hold">>,
                        branch |-> "repeat"]
                  ELSE [h |-> h1, result |-> None, branch |-> "continue"]
    ELSE IF near_neutral /\ h.current_gesture # "none"
    THEN IF NodDue(t - h.gesture_start_time, h.gesture_triggered)
         THEN [h |-> [h EXCEPT !.gesture_triggered = TRUE,
                               !.gesture_type = "nod",
                               !.last_gesture_time = t,
                               !.current_gesture = "none"],
               result |-> <<h.current_gesture, "nod">>, branch |-> "nod"]
         ELSE [h |-> [h EXCEPT !.current_gesture = "none",
                               !.gesture_start_time = NoTime,
                               !.gesture_triggered = FALSE],
               result |-> None,
               branch |-> IF h.gesture_triggered THEN "release" ELSE "expire"]
    ELSE [h |-> h, result |-> None, branch |-> "idle"]

\* detect_head_gesture on the head state h with the smoothed pose, the neutral
\* pose and the clock t: the new head state, the result and the path taken.
detect_head_gesture(h, pitch, yaw, n_pitch, n_yaw, t) ==
    LET rel_pitch == RSub(pitch, n_pitch)
        rel_yaw == RSub(yaw, n_yaw)
        detected_gesture == DetectDirection(rel_pitch, rel_yaw)
        current_deviation == Deviation(detected_gesture, rel_pitch, rel_yaw)
        near_neutral == NearNeutral(rel_pitch, rel_yaw)
    IN
    IF InCooldown(h.gesture_type, t, h.last_gesture_time)
    THEN [h |-> h, result |-> None, branch |-> "cooldown"]
    ELSE IF detected_gesture # "none"
    THEN IF h.current_gesture # detected_gesture
         THEN [h |-> [h EXCEPT !.current_gesture = detected_gesture,
                               !.gesture_start_time = t,
                               !.gesture_triggered = FALSE,
                               !.max_deviation = current_deviation,
                               !.gesture_type = "none"],
               result |-> None, branch |-> "start"]
         ELSE LET h1 == [h EXCEPT !.max_deviation =
                                    RMax(h.max_deviation, current_deviation)]
                  elapsed == t - h.gesture_start_time
              IN  IF HoldDue(elapsed, h.gesture_triggered)
                  THEN [h |-> [h1 EXCEPT !.gesture_triggered = TRUE,
                                         !.gesture_type = "hold",
                                         !.last_gesture_time = t,
                                         !.last_scroll_time = ScrollSeed(t)],
                        result |-> <<detected_gesture, "hold">>,
                        branch |-> "hold"]
                  ELSE IF ScrollDue(h.gesture_type, detected_gesture, t,
                                    h.last_scroll_time)
                  THEN [h |-> [h1 EXCEPT !.last_scroll_time = t],
                        result |-> <<detected_gesture, "hold">>,
                        branch |-> "repeat"]
                  ELSE [h |-> h1, result |-> None, branch |-> "continue"]
    ELSE IF near_neutral /\ h.current_gesture # "none"
    THEN IF NodDue(t - h.gesture_start_time, h.gesture_triggered)
         THEN [h |-> [h EXCEPT !.gesture_triggered = TRUE,
                               !.gesture_type = "nod",
                               !.last_gesture_time = t,
                               !.current_gesture = "none",
                               !.gesture_start_time = NoTime],
               result |-> <<h.current_gesture, "nod">>, branch |-> "nod"]
         ELSE [h |-> [h EXCEPT !.current_gesture = "none",
                               !.gesture_start_time = NoTime,
                               !.gesture_triggered = FALSE,
                               !.gesture_type = "none"],
               result |-> None,
               branch |-> IF h.gesture_triggered THEN "release" ELSE "expire"]
    ELSE [h |-> h, result |-> None, branch |-> "idle"]

\* ------------------------------------------------------------ hand logic
\* A hand as detect_palm and detect_fist read it: how many of the four fingers
\* have the tip above the MCP joint (ext) or below it (curled), whether the
\* thumb is curled, and the x of the middle-finger MCP in units of 0.05.
\* A slip of the palm test: any hand counts as an open palm.
detect_palm_any(hand) == hand.ext >= 0

detect_palm(hand) == hand.ext >= 3

detect_fist(hand) == hand.curled >= 4 /\ hand.thumb

\* A slip of the swipe's time test: <= for <.
SwipeInTimeLoose(elapsed) == elapsed <= SWIPE_MAX_TIME

\* The swipe is still inside its time window.
SwipeInTime(elapsed) == elapsed < SWIPE_MAX_TIME

\* A slip of the distance test: the sign of the distance.
SwipeFarRight(distance) == -distance > SWIPE_THRESHOLD

\* The palm moved left far enough (distance = swipe_start_x - palm_x).
SwipeFar(distance) == distance > SWIPE_THRESHOLD

\* detect_swipe on the tracker s = [swipe_start_x, swipe_start_time] with a
\* hand at clock t: the new tracker and the result ("none" for None).
detect_swipe(s, hand, t) ==
    LET cleared == [swipe_start_x |-> NoX, swipe_start_time |-> NoTime]
        seeded == [swipe_start_x |-> hand.x, swipe_start_time |-> t]
    IN
    IF detect_palm(hand)
    THEN IF s.swipe_start_x = NoX
         THEN [s |-> seeded, result |-> "none"]
         ELSE IF SwipeInTime(t - s.swipe_start_time)
         THEN IF SwipeFar(s.swipe_start_x - hand.x)
              THEN [s |-> cleared, result |-> "swipe_left"]
              ELSE [s |-> s, result |-> "none"]
         ELSE [s |-> seeded, result |-> "none"]
    ELSE [s |-> cleared, result |-> "none"]

\* A slip of the hand cooldown: it is not tested.
HandCooledAlways(t, last, cooldown) == TRUE

\* The hand cooldown is over.
HandCooled(t, last, cooldown) == t - last > cooldown

HandsState ==
    [last_hand_gesture_time |-> last_hand_gesture_time,
     swipe_start_x |-> swipe_start_x,
     swipe_start_time |-> swipe_start_time]

\* The body of the loop over the hands of a frame, for one hand at clock t:
\* the swipe first, then the fist.  The new hand state and the event sent
\* ("none" when nothing is sent).
HandStep(hs, hand, t, cooldown) ==
    LET sw == detect_swipe([swipe_start_x |-> hs.swipe_start_x,
                            swipe_start_time |-> hs.swipe_start_time],
                           hand, t)
        hs1 == [hs EXCEPT !.swipe_start_x = sw.s.swipe_start_x,
                          !.swipe_start_time = sw.s.swipe_start_time]
    IN  IF sw.result # "none" /\ HandCooled(t, hs.last_hand_gesture_time, cooldown)
        THEN [hs |-> [hs1 EXCEPT !.last_hand_gesture_time = t],
              event |-> sw.result]
        ELSE IF /\ detect_fist(hand)
                /\ HandCooled(t, hs.last_hand_gesture_time, cooldown)
        THEN [hs |-> [hs1 EXCEPT !.last_hand_gesture_time = t],
              event |-> "fist"]
        ELSE [hs |-> hs1, event |-> "none"]

\* The open-palm motion in progress after a hand at clock t gave event:
\* <<x of its first sample, its clock, x of its last sample>>.
MotionAfter(m, hand, t, event) ==
    IF ~detect_palm(hand) \/ event = "swipe_left" THEN None
    ELSE IF m = None \/ hand.x >= m[3] THEN <<hand.x, t, hand.x>>
    ELSE <<m[1], m[2], hand.x>>

\* What the loop over the hands records for a hand at clock t: hs and m are
\* the hand state and the motion before it, st what HandStep gave.
HandEntry(hs, m, hand, t, st) ==
    [hand |-> hand, t |-> t,
     start_x |-> hs.swipe_start_x,
     start_time |-> hs.swipe_start_time,
     last |-> hs.last_hand_gesture_time,
     motion |-> m,
     after_x |-> st.hs.swipe_start_x,
     after_time |-> st.hs.swipe_start_time,
     event |-> st.event]

\* ------------------------------------------------------------ socket client
\* A slip of the name: direction first.
HeadNameDirFirst(result) == result[1] \o "_" \o result[2]

\* The gesture_full_name of a head result (direction, mode).
HeadName(result) == result[2] \o "_" \o result[1]

\* The object send_gesture hands to IPCClient.send.
send_gesture(gesture_name, action_type) ==
    [type |-> "gesture", gesture |-> gesture_name, action_type |-> action_type]

\* json.dumps of such an object, as tokens.
json_dumps(data) ==
    <<"{", "type:", data.type, "gesture:", data.gesture,
      "action_type:", data.action_type, "}">>

\* IPCClient.connect under the state of the peer: "up" (it accepts and
\* reads), "reset" (it accepts, then sendall raises), "down" (it refuses).
connect(net) == net # "down"

\* A slip of send: a second reconnect attempt when the first one failed.
send_retry(conn, data, net) ==
    IF conn \/ connect(net)
    THEN IF net = "up"
         THEN [connected |-> TRUE, wrote |-> <<json_dumps(data) \o <<"\n">>>>,
               attempts |-> IF conn THEN 0 ELSE 1]
         ELSE [connected |-> FALSE, wrote |-> <<>>,
               attempts |-> IF conn THEN 0 ELSE 1]
    ELSE [connected |-> connect(net), wrote |-> <<>>, attempts |-> 2]

\* A slip of send: the text is written twice.
send_twice(conn, data, net) ==
    IF conn \/ connect(net)
    THEN IF net = "up"
         THEN [connected |-> TRUE,
               wrote |-> <<json_dumps(data) \o <<"\n">>,
                           json_dumps(data) \o <<"\n">>>>,
               attempts |-> IF conn THEN 0 ELSE 1]
         ELSE [connected |-> FALSE, wrote |-> <<>>,
               attempts |-> IF conn THEN 0 ELSE 1]
    ELSE [connected |-> FALSE, wrote |-> <<>>, attempts |-> 1]

\* IPCClient.send: connected afterwards, the texts written, and the connect
\* attempts made.  A sendall that raises is taken to have written nothing.
send(conn, data, net) ==
    IF conn \/ connect(net)
    THEN IF net = "up"
         THEN [connected |-> TRUE, wrote |-> <<json_dumps(data) \o <<"\n">>>>,
               attempts |-> IF conn THEN 0 ELSE 1]
         ELSE [connected |-> FALSE, wrote |-> <<>>,
               attempts |-> IF conn THEN 0 ELSE 1]
    ELSE [connected |-> FALSE, wrote |-> <<>>, attempts |-> 1]

\* The calls of send of one iteration, in order, on the objects msgs.
RECURSIVE Ship(_, _, _)
Ship(conn, msgs, net) ==
    IF msgs = <<>> THEN [connected |-> conn, wire |-> <<>>, log |-> <<>>]
    ELSE LET r == send(conn, Head(msgs), net)
             rest == Ship(r.connected, Tail(msgs), net)
         IN  [connected |-> rest.connected,
              wire |-> r.wrote \o rest.wire,
              log |-> <<[data |-> Head(msgs), connected |-> conn, net |-> net,
                         attempts |-> r.attempts, wrote |-> r.wrote]>>
                      \o rest.log]

\* The object the head part of a frame sends, if any.
HeadMessages(result) ==
    IF result = None THEN <<>>
    ELSE <<send_gesture(HeadName(result), "head")>>

\* The object the loop over the hands sends for one hand, if any.
HandMessages(event) ==
    IF event = "none" THEN <<>> ELSE <<send_gesture(event, "hand")>>

\* --------------------------------------------------------- inbound text
\* The recalibrate command line in two halves, neither of them JSON on its
\* own; another JSON object; text that is no JSON.
CmdHead == "{\"type\": \"command\", "
CmdTail == "\"command\": \"recalibrate\"}"
OtherObject == "{\"type\": \"ping\"}"
Garbage == "{oops"
\* JSON that is no object.
Scalar == "5"

\* str.strip on text ending or starting with newlines.
RECURSIVE strip(_)
strip(text) ==
    IF text = <<>> THEN text
    ELSE IF Head(text) = "\n" THEN strip(Tail(text))
    ELSE IF text[Len(text)] = "\n" THEN strip(SubSeq(text, 1, Len(text) - 1))
    ELSE text

\* str.split('\n').
RECURSIVE split(_)
split(text) ==
    IF \A i \in 1..Len(text) : text[i] # "\n" THEN <<text>>
    ELSE LET i == CHOOSE k \in 1..Len(text) :
                      /\ text[k] = "\n"
                      /\ \A j \in 1..(k - 1) : text[j] # "\n"
         IN  <<SubSeq(text, 1, i - 1)>> \o split(SubSeq(text, i + 1, Len(text)))

\* What the loop makes of one part: skipped when empty, else json.loads and
\* the test of the command; "malformed" when json.loads raises, "scalar"
\* when it returns a value that has no get.
json_loads(part) ==
    IF part = <<>> THEN "blank"
    ELSE IF part = <<CmdHead, CmdTail>> THEN "recalibrate"
    ELSE IF part = <<OtherObject>> THEN "other"
    ELSE IF part = <<Scalar>> THEN "scalar"
    ELSE "malformed"

\* The parts of one read, as the command loop takes them.
ReadParts(text) ==
    LET parts == split(strip(text))
    IN  [i \in 1..Len(parts) |-> json_loads(parts[i])]

\* The text after the last newline of text.
RECURSIVE LastLine(_)
LastLine(text) ==
    IF \A i \in 1..Len(text) : text[i] # "\n" THEN text
    ELSE LastLine(Tail(text))

\* What a reader that buffers partial lines holds after text arrives.
Buffered(tail, text) ==
    LET held == IF \E i \in 1..Len(text) : text[i] = "\n"
                THEN LastLine(text)
                ELSE tail \o text
    IN  IF held = <<>> \/ held = <<CmdHead>> THEN held ELSE <<"junk">>

\* ----------------------------------------------------------- configuration
\* The detection options __init__ reads.
Options ==
    {"pitch_threshold", "yaw_threshold", "nod_max_time", "hold_min_time",
     "return_threshold", "cooldown_time", "smoothing_window",
     "calibration_frames", "scroll_cooldown", "hand_cooldown",
     "swipe_threshold", "swipe_max_time"}

\* The detection section of default_config: angles in degrees, times in ticks
\* of 0.05 s, x in steps of 0.05.
DefaultDetection ==
    [pitch_threshold |-> 12, yaw_threshold |-> 20, nod_max_time |-> 20,
     hold_min_time |-> 20, return_threshold |-> 8, cooldown_time |-> 20,
     smoothing_window |-> 5, calibration_frames |-> 30,
     scroll_cooldown |-> 2, hand_cooldown |-> 20, swipe_threshold |-> 3,
     swipe_max_time |-> 10]

\* A slip of the merge: the user's section is ignored.
dict_update_none(d, u) == d

\* dict.update: the keys of u are set in d, the others kept.
dict_update(d, u) ==
    [k \in DOMAIN d \cup DOMAIN u |-> IF k \in DOMAIN u THEN u[k] ELSE d[k]]

\* dict.get.
dict_get(d, k, default) == IF k \in DOMAIN d THEN d[k] ELSE default

\* load_config on a file: the detection section of the configuration it
\* returns.  open or json.load raises on a file that is missing or no JSON,
\* the test of a key raises on a root that is a number, and update raises on
\* a section that is no mapping; whatever was merged before the exception
\* stays in the configuration returned.  A root that is a list has no key.
load_config(file) ==
    IF file.kind # "object" THEN DefaultDetection
    ELSE IF file.detection.kind = "absent" THEN DefaultDetection
    ELSE IF file.detection.kind = "bad" THEN DefaultDetection
    ELSE dict_update(DefaultDetection, file.detection.map)

\* The detection attributes __init__ sets from the configuration.
ReadOptions(detection_config) ==
    [k \in Options |-> dict_get(detection_config, k, DefaultDetection[k])]

\* Raw (pitch, yaw) samples calculate_head_pose may return: neutral, turned
\* right, tilted up, and off-centre without reaching a threshold.
Poses == {<<0, 0>>, <<0, 25>>, <<-15, 0>>, <<10, 10>>}

\* The lines of one read: the recalibrate command, a JSON object that is no
\* recalibrate command, and text that is no JSON.
Lines == {"recalibrate", "other", "malformed"}

RECURSIVE SeqsUpTo(_, _)
SeqsUpTo(S, n) ==
    IF n = 0 THEN {<<>>}
    ELSE LET shorter == SeqsUpTo(S, n - 1)
         IN  shorter \cup {Append(q, x) : q \in shorter, x \in S}

\* What receive_noblock returns: None, or the lines of the data read.
Reads == SeqsUpTo(Lines, MaxParts)

\* The preview's keys that change the engine: none pressed, or 'r'.
Keys == {"none", "r"}

\* The hands a frame may show: an open palm at x = 0.15, 0.30, 0.35 or 0.50,
\* and a fist.
HandSamples ==
    {[ext |-> 4, curled |-> 0, thumb |-> FALSE, x |-> x] : x \in {3, 6, 7, 10}}
    \cup {[ext |-> 0, curled |-> 4, thumb |-> TRUE, x |-> 10]}

\* Head poses to every side, by more than the thresholds.
Turns == {<<0, 0>>, <<0, 25>>, <<0, -25>>, <<-15, 0>>, <<15, 0>>}

\* Head poses on and off the axes: each angle none, or between or beyond the
\* thresholds and the other angle's share.
AxisPoses ==
    {<<p, y>> : p \in {-21, -13, 0, 13, 21}, y \in {-26, -16, 0, 16, 26}}

\* The ticks the clock may advance between two hands of one frame.
Lags == 0..MaxLag

\* The states of the peer during an iteration (see connect).
Nets == {"up", "reset", "down"}

\* The pieces of text the peer's writes arrive in: a recalibrate line whole,
\* its first half, its second half with the newline, and lines of other text.
Pieces ==
    {<<CmdHead, CmdTail, "\n">>, <<CmdHead>>, <<CmdTail, "\n">>,
     <<OtherObject, "\n">>, <<Garbage, "\n">>}

RECURSIVE Concat(_)
Concat(ss) == IF ss = <<>> THEN <<>> ELSE Head(ss) \o Concat(Tail(ss))

\* What recv may return: nothing, or up to MaxPieces pieces.
Texts == {Concat(ps) : ps \in SeqsUpTo(Pieces, MaxPieces)}

\* The values a configuration file gives an option.
UserValues == {0, 7}

\* The detection sections a file may hold: up to MaxKeys keys, among the
\* options and a key the engine does not know.
Sections ==
    UNION {[S -> UserValues] :
             S \in {T \in SUBSET (Options \cup {"bogus"}) :
                      Cardinality(T) <= MaxKeys}}

\* The configuration files: missing, no JSON, a JSON number, a JSON list, or
\* an object whose detection section is absent, no mapping ("bad") or a
\* mapping; flat: it also holds an option's name at the root; later: whether
\* a section read after detection is a mapping ("ok") or not ("bad").
Files ==
    {[kind |-> k] : k \in {"missing", "garbage", "number", "list"}}
    \cup {[kind |-> "object", detection |-> d, flat |-> f, later |-> l] :
            d \in {[kind |-> "absent"], [kind |-> "bad"]}
                  \cup {[kind |-> "map", map |-> m] : m \in Sections},
            f \in BOOLEAN, l \in {"ok", "bad"}}

\* The loop is followed until this clock value.
Deadline(w, frames) ==
    Epoch + (IF w = 1 /\ frames = 1 THEN Horizon ELSE ShortHorizon)

\* -------------------------------------------------------------------- Init
\* The state after construction, under a configuration whose smoothing_window,
\* calibration_frames and hand_cooldown are in the given sets and with the
\* first connect succeeding or not as in links.
Engine(windows, frames, cooldowns, links) ==
    /\ SMOOTHING_WINDOW \in windows
    /\ calibration_frames \in frames
    /\ HAND_COOLDOWN \in cooldowns
    /\ connected \in links
    /\ pitch_history = <<>>
    /\ yaw_history = <<>>
    /\ neutral_pitch = None
    /\ neutral_yaw = None
    /\ calibration_count = 0
    /\ last_gesture_time = 0
    /\ gesture_start_time = NoTime
    /\ current_gesture = "none"
    /\ gesture_triggered = FALSE
    /\ gesture_type = "none"
    /\ max_deviation = RInt(0)
    /\ last_scroll_time = 0
    /\ head_gesture_data = None
    /\ now = Epoch
    /\ pc = "poll"
    /\ called = FALSE
    /\ branch = "none"
    /\ call_pose = "none"
    /\ recalibrated = FALSE
    /\ last_pose = "none"
    /\ run_start = NoTime
    /\ run_ok = FALSE
    /\ prev_hold = None
    /\ last_trigger = NoTime
    /\ trigger_gap = NoTime
    /\ recal_ctx = "none"
    /\ recal_at = NoTime
    /\ cal_fed = 0
    /\ cal_raw = <<>>
    /\ cal_pushed = <<>>
    /\ last_hand_gesture_time = 0
    /\ swipe_start_x = NoX
    /\ swipe_start_time = NoTime
    /\ wire = <<>>
    /\ hand_log = <<>>
    /\ hand_events = <<>>
    /\ motion = None
    /\ send_log = <<>>
    /\ rx_tail = <<>>
    /\ rx_parts = <<>>
    /\ server_socket = 0
    /\ port = 0
    /\ running = FALSE
    /\ worker_process = None
    /\ active_conn = 0
    /\ server_threads = <<>>
    /\ closed_sockets = {}
    /\ host_pc = "idle"
    /\ dispatched = <<>>

Start(windows, frames, cooldowns, links) ==
    /\ Engine(windows, frames, cooldowns, links)
    /\ construction = None

Init == Start(1..MaxWindow, 1..MaxFrames, {HAND_COOLDOWN_TIME}, {TRUE})

\* ----------------------------------------------------------------- actions
\* The command loop of run over the lines of one read: a recalibrate command
\* resets the calibration; json.loads raising on a line, or cmd.get raising
\* on a value that is no object, ends the loop.
RECURSIVE HandleParts(_, _)
HandleParts(c, parts) ==
    IF parts = <<>> THEN c
    ELSE IF Head(parts) \in {"malformed", "scalar"} THEN c
    ELSE IF Head(parts) = "recalibrate"
    THEN HandleParts(Recalibrate(c), Tail(parts))
    ELSE HandleParts(c, Tail(parts))

RECURSIVE SawRecalibrate(_)
SawRecalibrate(parts) ==
    /\ parts # <<>>
    /\ Head(parts) \notin {"malformed", "scalar"}
    /\ (Head(parts) = "recalibrate" \/ SawRecalibrate(Tail(parts)))

\* The command loop leaves run by an exception: the except clause catches
\* JSONDecodeError only, not the AttributeError of cmd.get.
RECURSIVE Raises(_)
Raises(parts) ==
    /\ parts # <<>>
    /\ Head(parts) # "malformed"
    /\ (Head(parts) = "scalar" \/ Raises(Tail(parts)))

SetCalib(c) ==
    /\ pitch_history' = c.pitch_history
    /\ yaw_history' = c.yaw_history
    /\ neutral_pitch' = c.neutral_pitch
    /\ neutral_yaw' = c.neutral_yaw
    /\ calibration_count' = c.calibration_count

SetHead(h) ==
    /\ last_gesture_time' = h.last_gesture_time
    /\ gesture_start_time' = h.gesture_start_time
    /\ current_gesture' = h.current_gesture
    /\ gesture_triggered' = h.gesture_triggered
    /\ gesture_type' = h.gesture_type
    /\ max_deviation' = h.max_deviation
    /\ last_scroll_time' = h.last_scroll_time

\* The head state a recalibration finds, from the calibration state c and the
\* head state h.
HeadContext(c, h) ==
    IF c.neutral_pitch = None THEN "calibrating"
    ELSE IF h.gesture_type = "hold" THEN "hold"
    ELSE IF h.current_gesture # "none" THEN "tracking"
    ELSE "idle"

\* What a recalibration at clock t in the state (c, h) records.
ObserveRecalibrate(c, h, t) ==
    /\ recal_ctx' = HeadContext(c, h)
    /\ recal_at' = IF HeadContext(c, h) = "hold" THEN t
                   ELSE IF HeadContext(c, h) = "calibrating" THEN recal_at
                   ELSE NoTime
    /\ last_pose' = "none"
    /\ run_start' = NoTime
    /\ run_ok' = FALSE
    /\ cal_fed' = 0
    /\ cal_raw' = <<>>
    /\ cal_pushed' = <<>>

\* What the command loop makes of the lines of one read: the calibration
\* state it leaves, and whether it handled a recalibrate command.
ReadEffect(incoming) ==
    [c |-> HandleParts(CalibState, incoming), saw |-> SawRecalibrate(incoming),
     raised |-> Raises(incoming)]

\* The top of an iteration whose read has the effect e.
PollEffect(e) ==
    /\ pc = "poll"
    /\ pc' = IF e.raised THEN "stopped" ELSE "frame"
    /\ SetCalib(e.c)
    /\ recalibrated' = e.saw
    /\ IF e.saw
       THEN ObserveRecalibrate(CalibState, HeadState, now)
       ELSE UNCHANGED <<recal_ctx, recal_at, last_pose, run_start, run_ok,
                        cal_fed, cal_raw, cal_pushed>>
    /\ UNCHANGED <<config, head, head_gesture_data, now, called, branch,
                   call_pose, prev_hold, last_trigger, trigger_gap>>

\* The top of an iteration: the non-blocking read and the commands in it.
Poll(incoming) == PollEffect(ReadEffect(incoming))

\* How a pose relative to neutral reads: the direction it exceeds, "near"
\* when it is near neutral, "off" otherwise.
PoseClass(rel_pitch, rel_yaw) ==
    IF DetectDirection(rel_pitch, rel_yaw) # "none"
    THEN DetectDirection(rel_pitch, rel_yaw)
    ELSE IF NearNeutral(rel_pitch, rel_yaw) THEN "near" ELSE "off"

\* The face part of an iteration: smoothing, then calibration or detection.
\* The calibration state, the head state, the result and what was observed.
ProcessFace(c0, h0, pitch, yaw, t, w, frames) ==
    LET s == smooth_angles(c0.pitch_history, c0.yaw_history,
                           RInt(pitch), RInt(yaw), w)
        c1 == [c0 EXCEPT !.pitch_history = s.pitch_history,
                         !.yaw_history = s.yaw_history]
        cal == calibrate_neutral(c1, s.smooth_pitch, s.smooth_yaw, w, frames)
        d == detect_head_gesture(h0, s.smooth_pitch, s.smooth_yaw,
                                 cal.c.neutral_pitch, cal.c.neutral_yaw, t)
    IN  IF cal.ready
        THEN [c |-> cal.c, h |-> d.h, result |-> d.result, called |-> TRUE,
              pose |-> PoseClass(RSub(s.smooth_pitch, cal.c.neutral_pitch),
                                 RSub(s.smooth_yaw, cal.c.neutral_yaw)),
              branch |-> d.branch, pushed |-> None]
        ELSE [c |-> cal.c, h |-> h0, result |-> None, called |-> FALSE,
              pose |-> "none", branch |-> "none",
              pushed |-> <<s.smooth_pitch, s.smooth_yaw>>]

\* A slip of the frame without a face: the calibration is started again.
NoFaceForgets(c0, h0) ==
    [c |-> Recalibrate(c0), h |-> h0, result |-> None, called |-> FALSE,
     pose |-> "none", branch |-> "none", pushed |-> None]

\* A frame without a face: nothing of the head path is evaluated.
NoFace(c0, h0) ==
    [c |-> c0, h |-> h0, result |-> None, called |-> FALSE,
     pose |-> "none", branch |-> "none", pushed |-> None]

Directions == {"left", "right", "up", "down"}

\* What a frame whose face part gave f at clock t records.
ObserveFrame(f, face, pose, t) ==
    /\ last_pose' = IF f.called THEN f.pose ELSE last_pose
    /\ run_start' = IF ~f.called THEN run_start
                    ELSE IF f.pose \notin Directions THEN NoTime
                    ELSE IF f.pose = last_pose THEN run_start
                    ELSE t
    /\ run_ok' = IF ~f.called THEN run_ok
                 ELSE IF f.pose \notin Directions THEN FALSE
                 ELSE IF f.pose = last_pose THEN run_ok
                 ELSE /\ last_pose = "near"
                      /\ t - last_gesture_time >= COOLDOWN_TIME
    /\ cal_fed' = IF face /\ cal_fed <= calibration_frames THEN cal_fed + 1
                  ELSE cal_fed
    /\ cal_raw' = IF ~face THEN cal_raw
                  ELSE IF neutral_pitch # None THEN <<>>
                  ELSE Append(cal_raw, pose)
    /\ cal_pushed' = IF ~face THEN cal_pushed
                     ELSE IF neutral_pitch # None THEN <<>>
                     ELSE IF f.pushed # None THEN Append(cal_pushed, f.pushed)
                     ELSE cal_pushed
    /\ recal_ctx' = IF face /\ neutral_pitch # None THEN "none" ELSE recal_ctx
    /\ UNCHANGED recal_at

\* A result that is a trigger: a nod, or the hold event that starts a hold
\* (gtype is gesture_type before the call).
IsTrigger(result, gtype) ==
    /\ result # None
    /\ result[2] = "nod" \/ (result[2] = "hold" /\ gtype # "hold")

\* The rest of an iteration, but for the hands and the socket: a frame is read
\* dt ticks after the last one, with or without a face; then, in a frame that
\* shows no hand (more is false), the preview's key is handled, and 'r'
\* recalibrates.  A frame that shows hands goes on to the loop over them,
\* and the key is handled after it.
ProcessFrame(face, pose, dt, key, more) ==
    /\ pc = "frame"
    /\ now + dt <= Deadline(SMOOTHING_WINDOW, calibration_frames)
    /\ more => key = "none"
    /\ now' = now + dt
    /\ pc' = IF more THEN "hands" ELSE "poll"
    /\ \E t \in {now + dt} :
       \E f \in {IF face
                  THEN ProcessFace(CalibState, HeadState, pose[1], pose[2], t,
                                   SMOOTHING_WINDOW, calibration_frames)
                  ELSE NoFace(CalibState, HeadState)} :
           /\ SetCalib(IF key = "r" THEN Recalibrate(f.c) ELSE f.c)
           /\ SetHead(f.h)
           /\ head_gesture_data' = f.result
           /\ called' = f.called
           /\ branch' = f.branch
           /\ call_pose' = f.pose
           /\ prev_hold' = IF f.result # None /\ f.result[2] = "hold"
                           THEN IF prev_hold = None
                                THEN <<t, f.branch, "none", NoTime>>
                                ELSE <<t, f.branch, prev_hold[2],
                                       t - prev_hold[1]>>
                           ELSE IF f.h.gesture_type # "hold" THEN None
                           ELSE prev_hold
           /\ last_trigger' = IF IsTrigger(f.result, gesture_type) THEN t
                              ELSE last_trigger
           /\ trigger_gap' = IF /\ IsTrigger(f.result, gesture_type)
                                /\ last_trigger # NoTime
                             THEN t - last_trigger
                             ELSE NoTime
           /\ IF key = "r"
              THEN ObserveRecalibrate(f.c, f.h, t)
              ELSE ObserveFrame(f, face, pose, t)
    /\ UNCHANGED <<config, recalibrated>>

\* A frame up to the loop over the hands: the head part, with the head gesture
\* sent as it is detected, and the key when no hand follows.  The peer is in
\* state net.
Frame(face, pose, more, dt, key, net) ==
    /\ ProcessFrame(face, pose, dt, key, more)
    /\ \E c \in {Ship(connected, HeadMessages(head_gesture_data'), net)} :
           /\ connected' = c.connected
           /\ wire' = c.wire
           /\ send_log' = c.log
    /\ hand_log' = <<>>
    /\ hand_events' = <<>>
    /\ rx_parts' = <<>>
    /\ UNCHANGED <<HAND_COOLDOWN, hands_state, motion, rx_tail>>

\* One pass of the loop over the hands: the clock is read, lag ticks after
\* the reading for the hand before; the swipe, then the fist; the event is
\* sent as it is detected.
Hand(hand, lag, net) ==
    /\ pc = "hands"
    /\ Len(hand_events) < MaxHands
    /\ hand_events # <<>> \/ lag = 0
    /\ now + lag <= Deadline(SMOOTHING_WINDOW, calibration_frames)
    /\ now' = now + lag
    /\ \E st \in {HandStep(HandsState, hand, now + lag, HAND_COOLDOWN)} :
       \E c \in {Ship(connected, HandMessages(st.event), net)} :
           /\ last_hand_gesture_time' = st.hs.last_hand_gesture_time
           /\ swipe_start_x' = st.hs.swipe_start_x
           /\ swipe_start_time' = st.hs.swipe_start_time
           /\ hand_log' = <<HandEntry(HandsState, motion, hand, now + lag, st)>>
           /\ hand_events' = Append(hand_events, st.event)
           /\ motion' = MotionAfter(motion, hand, now + lag, st.event)
           /\ connected' = c.connected
           /\ wire' = wire \o c.wire
           /\ send_log' = send_log \o c.log
    /\ UNCHANGED <<config, calib, head, head_gesture_data, pc, observed,
                   HAND_COOLDOWN, rx_tail, rx_parts>>

\* The end of an iteration that showed hands: the preview's key.
EndHands(key) ==
    /\ pc = "hands"
    /\ hand_events # <<>>
    /\ pc' = "poll"
    /\ IF key = "r"
       THEN /\ SetCalib(Recalibrate(CalibState))
            /\ ObserveRecalibrate(CalibState, HeadState, now)
       ELSE UNCHANGED <<calib, recal_ctx, recal_at, last_pose, run_start,
                        run_ok, cal_fed, cal_raw, cal_pushed>>
    /\ UNCHANGED <<config, head, head_gesture_data, now, called, branch,
                   call_pose, recalibrated, prev_hold, last_trigger,
                   trigger_gap, HAND_COOLDOWN, hands_state, channel,
                   hand_events, motion, send_log, rx_tail, rx_parts>>
    /\ hand_log' = <<>>

\* What starts with an iteration: its texts written and its logs.
NewIteration ==
    /\ wire' = <<>>
    /\ send_log' = <<>>
    /\ hand_log' = <<>>
    /\ hand_events' = <<>>

\* The top of an iteration on lines already split and parsed, one of reads;
\* reads with the same effect give the same step.
PollLines(reads) ==
    /\ \E e \in {ReadEffect(incoming) : incoming \in reads} : PollEffect(e)
    /\ NewIteration
    /\ UNCHANGED <<HAND_COOLDOWN, hands_state, connected, motion, rx_tail,
                   rx_parts>>

\* The top of an iteration on the text recv returns (<<>>: no data, and
\* nothing else when the client is not connected).
Receive(text) ==
    /\ text # <<>> => connected
    /\ Poll(IF text = <<>> THEN <<>> ELSE ReadParts(text))
    /\ rx_parts' = IF text = <<>> THEN <<>> ELSE split(strip(text))
    /\ rx_tail' = Buffered(rx_tail, text)
    /\ NewIteration
    /\ UNCHANGED <<HAND_COOLDOWN, hands_state, connected, motion>>

Next ==
    \/ PollLines(Reads)
    \/ \E pose \in Poses, dt \in 1..MaxDt, key \in Keys :
          Frame(TRUE, pose, FALSE, dt, key, "up")
    \/ \E dt \in 1..MaxDt, key \in Keys :
          Frame(FALSE, <<0, 0>>, FALSE, dt, key, "up")

Spec == Init /\ [][Next]_vars

\* The same loop under a configuration with a longer smoothing window.
InitSmooth ==
    Start({SmoothWindow}, 1..MaxFrames, {HAND_COOLDOWN_TIME}, {TRUE})

SpecSmooth == InitSmooth /\ [][Next]_vars

\* The loop in front of hands only: no face, no command, no key, the peer up;
\* hand_cooldown is kept or set to 0.
InitHand == Start({MaxWindow}, {1}, {0, HAND_COOLDOWN_TIME}, {TRUE})

NextHand ==
    \/ PollLines({<<>>})
    \/ \E dt \in 1..MaxDt, more \in BOOLEAN :
          /\ now + dt <= Epoch + HandHorizon
          /\ Frame(FALSE, <<0, 0>>, more, dt, "none", "up")
    \/ \E hand \in HandSamples, lag \in Lags :
          /\ now + lag <= Epoch + HandHorizon
          /\ Hand(hand, lag, "up")
    \/ EndHands("none")

SpecHand == InitHand /\ [][NextHand]_vars

\* The loop in front of a face, with the peer writing text: what recv returns
\* is any text of Texts, cut where the peer's writes were cut.
InitWire == Start({MaxWindow}, {1}, {HAND_COOLDOWN_TIME}, {TRUE})

NextWire ==
    \/ \E text \in Texts : Receive(text)
    \/ \E pose \in Poses, dt \in 1..MaxDt :
          Frame(TRUE, pose, FALSE, dt, "none", "up")

SpecWire == InitWire /\ [][NextWire]_vars

\* The loop in front of a face and hands, with a peer that is up, resets the
\* connection or refuses it, from a first connect that succeeded or not.
\* No smoothing, one calibration frame, the head still until calibrated, at
\* most one hand in a frame.
InitChannel == Start({1}, {1}, {HAND_COOLDOWN_TIME}, BOOLEAN)

NextChannel ==
    \/ PollLines({<<>>})
    \/ \E pose \in Turns, more \in BOOLEAN, dt \in {1}, net \in Nets :
          /\ neutral_pitch = None => pose = <<0, 0>>
          /\ now + dt <= Epoch + ChannelHorizon
          /\ Frame(TRUE, pose, more, dt, "none", net)
    \/ \E hand \in {h \in HandSamples : h.x \in {6, 10}}, net \in Nets :
          /\ hand_events = <<>>
          /\ Hand(hand, 0, net)
    \/ EndHands("none")

SpecChannel == InitChannel /\ [][NextChannel]_vars

\* The loop in front of a face that comes and goes and of at most one hand in
\* a frame; no command, no key, the peer up.
InitPaths == Start({1}, {1}, {HAND_COOLDOWN_TIME}, {TRUE})

NextPaths ==
    \/ PollLines({<<>>})
    \/ \E pose \in Poses, more \in BOOLEAN :
          /\ now + 1 <= Epoch + PathHorizon
          /\ Frame(TRUE, pose, more, 1, "none", "up")
    \/ \E more \in BOOLEAN :
          /\ now + 1 <= Epoch + PathHorizon
          /\ Frame(FALSE, <<0, 0>>, more, 1, "none", "up")
    \/ \E hand \in {h \in HandSamples : h.x \in {6, 10}} :
          /\ hand_events = <<>>
          /\ Hand(hand, 0, "up")
    \/ EndHands("none")

SpecPaths == InitPaths /\ [][NextPaths]_vars

\* The loop in front of a head that is still until calibrated and then turns
\* every way from frame to frame; no smoothing, one calibration frame.
InitAxis == Start({1}, {1}, {HAND_COOLDOWN_TIME}, {TRUE})

NextAxis ==
    \/ PollLines({<<>>})
    \/ \E pose \in AxisPoses :
          /\ neutral_pitch = None => pose = <<0, 0>>
          /\ now + 1 <= Epoch + AxisHorizon
          /\ Frame(TRUE, pose, FALSE, 1, "none", "up")

SpecAxis == InitAxis /\ [][NextAxis]_vars

\* The loop running without end, with or without a face, the recalibrate
\* command and the 'r' key arriving at any time: the loop always goes on to
\* its next iteration.  A frame is read in the tick of the last one or in the
\* next.
InitLive == Start({1}, {MaxFrames}, {HAND_COOLDOWN_TIME}, {TRUE})

LiveFrame(face, pose, key) ==
    \E dt \in 0..1 :
        /\ dt = 1 => now < Epoch + LiveHorizon
        /\ Frame(face, pose, FALSE, dt, key, "up")

NextLive ==
    \/ PollLines({<<>>, <<"recalibrate">>})
    \/ \E pose \in {<<0, 0>>, <<0, 25>>}, key \in Keys :
          LiveFrame(TRUE, pose, key)
    \/ \E key \in Keys : LiveFrame(FALSE, <<0, 0>>, key)

\* The loop goes on: from the poll to the frame, from the frame to the next
\* iteration's poll.
Advance == pc' \in {"poll", "frame"} /\ pc' # pc

SpecLive == InitLive /\ [][NextLive]_vars /\ WF_pc(Advance)

\* The loop in front of a face, with reads of lines of every kind, those that
\* are JSON but no object included; no smoothing, one calibration frame.
AnyLines == Lines \cup {"scalar"}

InitLines == Start({1}, {1}, {HAND_COOLDOWN_TIME}, {TRUE})

NextLines ==
    \/ PollLines(SeqsUpTo(AnyLines, MaxParts))
    \/ \E pose \in Poses :
          /\ now + 1 <= Epoch + LineHorizon
          /\ Frame(TRUE, pose, FALSE, 1, "none", "up")

SpecLines == InitLines /\ [][NextLines]_vars

\* ------------------------------------------------------------ the server
\* self.server_socket and self.active_conn when they are None.
NoSocket == 0
NoConn == 0

\* The worker's side is left as constructed, and no message is handled.
WorkerIdle ==
    UNCHANGED <<SMOOTHING_WINDOW, calibration_frames, construction, calib,
                head, head_gesture_data, now, pc, observed, HAND_COOLDOWN,
                hands_state, channel, observed_io, dispatched>>

\* A step of the main thread that moves it to position p.
HostTo(p) == host_pc' = p /\ WorkerIdle

\* A step of server thread i that moves it to position p.
ThreadTo(i, p) ==
    /\ server_threads' = [server_threads EXCEPT ![i] = p]
    /\ UNCHANGED host_pc
    /\ WorkerIdle

\* self.server_socket can be used: it is set, and not closed.
SocketUsable == server_socket # NoSocket /\ server_socket \notin closed_sockets

\* toggle with no worker: start, up to thread.start().
StartThread ==
    /\ host_pc = "idle"
    /\ worker_process = None
    /\ Len(server_threads) < MaxStarts
    /\ server_threads' = Append(server_threads, "socket")
    /\ host_pc' = "sleep"
    /\ WorkerIdle
    /\ UNCHANGED <<server_socket, port, running, worker_process, active_conn,
                   closed_sockets>>

\* The rest of start: after the sleep, self.port is read and the worker is
\* launched with it.
StartWorker ==
    /\ host_pc = "sleep"
    /\ worker_process' = [port |-> port, start |-> Len(server_threads)]
    /\ HostTo("idle")
    /\ UNCHANGED <<server_socket, port, running, active_conn, server_threads,
                   closed_sockets>>

\* toggle with a worker: stop, its first statement.
StopRunning ==
    /\ host_pc = "idle"
    /\ worker_process # None
    /\ running' = FALSE
    /\ HostTo("stop_worker")
    /\ UNCHANGED <<server_socket, port, worker_process, active_conn,
                   server_threads, closed_sockets>>

\* stop: the worker is terminated.
StopWorker ==
    /\ host_pc = "stop_worker"
    /\ worker_process' = None
    /\ HostTo("stop_socket")
    /\ UNCHANGED <<server_socket, port, running, active_conn, server_threads,
                   closed_sockets>>

\* stop: the server socket, if any, is closed and forgotten.
StopSocket ==
    /\ host_pc = "stop_socket"
    /\ closed_sockets' = IF server_socket = NoSocket THEN closed_sockets
                         ELSE closed_sockets \cup {server_socket}
    /\ server_socket' = NoSocket
    /\ HostTo("idle")
    /\ UNCHANGED <<port, running, worker_process, active_conn,
                   server_threads>>

\* start_server, line 151: thread i creates its socket.
ThreadSocket(i) ==
    /\ server_threads[i] = "socket"
    /\ server_socket' = i
    /\ ThreadTo(i, "bind")
    /\ UNCHANGED <<port, running, worker_process, active_conn,
                   closed_sockets>>

\* Lines 152 and 154: bind and listen on self.server_socket; an exception
\* (the socket is None or closed) ends the thread.
ThreadBind(i) ==
    /\ server_threads[i] = "bind"
    /\ ThreadTo(i, IF SocketUsable THEN "port" ELSE "dead")
    /\ UNCHANGED <<server_socket, port, running, worker_process, active_conn,
                   closed_sockets>>

\* Line 153: self.port is set from getsockname.
ThreadPort(i) ==
    /\ server_threads[i] = "port"
    /\ port' = IF SocketUsable THEN server_socket ELSE port
    /\ ThreadTo(i, IF SocketUsable THEN "listen" ELSE "dead")
    /\ UNCHANGED <<server_socket, running, worker_process, active_conn,
                   closed_sockets>>

ThreadListen(i) ==
    /\ server_threads[i] = "listen"
    /\ ThreadTo(i, IF SocketUsable THEN "run" ELSE "dead")
    /\ UNCHANGED <<server_socket, port, running, worker_process, active_conn,
                   closed_sockets>>

\* Line 155: self.running = True.
ThreadRunning(i) ==
    /\ server_threads[i] = "run"
    /\ running' = TRUE
    /\ ThreadTo(i, "check")
    /\ UNCHANGED <<server_socket, port, worker_process, active_conn,
                   closed_sockets>>

\* Line 158: the test of the accept loop.
ThreadCheck(i) ==
    /\ server_threads[i] = "check"
    /\ ThreadTo(i, IF running THEN "accept" ELSE "done")
    /\ UNCHANGED <<server_socket, port, running, worker_process, active_conn,
                   closed_sockets>>

\* Lines 160-164 and 182-185: accept on self.server_socket times out or
\* raises (both caught), or returns the connection of the worker that was
\* given the socket's port.
ThreadAccept(i, got) ==
    /\ server_threads[i] = "accept"
    /\ got => /\ SocketUsable
              /\ worker_process # None
              /\ worker_process.port = server_socket
              /\ active_conn = NoConn
    /\ active_conn' = IF got THEN i ELSE active_conn
    /\ ThreadTo(i, IF got THEN "serve" ELSE "check")
    /\ UNCHANGED <<server_socket, port, running, worker_process,
                   closed_sockets>>

\* Lines 166-181: the connection loop goes on while self.running and the
\* worker is there; then active_conn is cleared.
ThreadServe(i) ==
    /\ server_threads[i] = "serve"
    /\ ~running \/ worker_process = None
    /\ active_conn' = NoConn
    /\ ThreadTo(i, "check")
    /\ UNCHANGED <<server_socket, port, running, worker_process,
                   closed_sockets>>

InitServer == Start({1}, {1}, {HAND_COOLDOWN_TIME}, {TRUE})

NextServer ==
    \/ StartThread
    \/ StartWorker
    \/ StopRunning
    \/ StopWorker
    \/ StopSocket
    \/ \E i \in 1..Len(server_threads) :
          \/ ThreadSocket(i)
          \/ ThreadBind(i)
          \/ ThreadPort(i)
          \/ ThreadListen(i)
          \/ ThreadRunning(i)
          \/ ThreadCheck(i)
          \/ \E got \in BOOLEAN : ThreadAccept(i, got)
          \/ ThreadServe(i)

SpecServer == InitServer /\ [][NextServer]_vars

\* The construction: __init__ loads the configuration file and sets the
\* detection attributes from it (the three that are variables here hold the
\* defaults until then).
InitConstruct ==
    /\ Engine({DefaultDetection.smoothing_window},
              {DefaultDetection.calibration_frames},
              {DefaultDetection.hand_cooldown}, BOOLEAN)
    /\ construction \in {[file |-> f, built |-> FALSE, options |-> None] :
                            f \in Files}

Construct ==
    /\ ~construction.built
    /\ \E o \in {ReadOptions(load_config(construction.file))} :
          /\ construction' = [construction EXCEPT !.built = TRUE,
                                                  !.options = o]
          /\ SMOOTHING_WINDOW' = o.smoothing_window
          /\ calibration_frames' = o.calibration_frames
          /\ HAND_COOLDOWN' = o.hand_cooldown
    /\ UNCHANGED <<host, calib, head, head_gesture_data, now, pc, observed,
                   hands_state, channel, observed_io>>

SpecConstruct == InitConstruct /\ [][Construct]_vars

\* ------------------------------------------------------------- properties
\* A step of the loop in which detect_head_gesture was called.
CallStep == pc = "frame" /\ called'

\* C1 (nod): with calibration complete and no cooldown active, a pose that
\* leaves near-neutral, exceeds the threshold of one direction on consecutive
\* calls and is back near neutral less than nod_max_time after the first of
\* them gives no event on the calls that see the direction and exactly the
\* event (direction, nod) on the call that sees the return.
C1_NodContract ==
    [][CallStep =>
         /\ (/\ last_pose' \in Directions
             /\ run_ok'
             /\ now' - run_start' < NOD_MAX_TIME)
            => head_gesture_data' = None
         /\ (/\ last_pose \in Directions
             /\ run_ok
             /\ last_pose' = "near"
             /\ now' - run_start < NOD_MAX_TIME)
            => head_gesture_data' = <<last_pose, "nod">>]_vars

C3_HoldSpacing ==
    (prev_hold # None /\ prev_hold[4] # NoTime)
        => prev_hold[4] >= SCROLL_COOLDOWN

\* C3 as amended: two consecutive repeat-fire events of one hold are at least
\* scroll_cooldown apart, and the first repeat-fire is not held back: the call
\* after the first hold event that still sees the up or down direction emits
\* it, however soon.
C3_RepeatSpacing ==
    [][/\ (prev_hold' # None /\ prev_hold'[3] = "repeat")
          => prev_hold'[4] >= SCROLL_COOLDOWN
       /\ (/\ CallStep
           /\ prev_hold # None
           /\ prev_hold[2] = "hold"
           /\ gesture_type = "hold"
           /\ current_gesture \in {"up", "down"}
           /\ call_pose' = current_gesture)
          => /\ head_gesture_data' = <<current_gesture, "hold">>
             /\ last_scroll_time' = now']_vars

\* C3's case: a repeat-fire that follows another repeat-fire.
C3_Witness ==
    /\ prev_hold # None
    /\ prev_hold[2] = "repeat"
    /\ prev_hold[3] = "repeat"
    /\ prev_hold[1] = now

\* C4 (global cooldown): a trigger (a nod or the first hold event of a
\* gesture) is never less than cooldown_time after the trigger before it.
C4_Cooldown == trigger_gap # NoTime => trigger_gap >= COOLDOWN_TIME

\* C4's case: a second trigger, here a nod, cooldown_time or more after the
\* trigger before it.
C4_Witness ==
    /\ trigger_gap # NoTime
    /\ called
    /\ branch = "nod"

\* C5: during a hold on up or down the cooldown never stalls the repeat-fire:
\* a call that sees the direction again with now - last_scroll_time >=
\* scroll_cooldown emits (direction, hold).
C5_HoldNotStalled ==
    [][(/\ CallStep
        /\ gesture_type = "hold"
        /\ current_gesture \in {"up", "down"}
        /\ call_pose' = current_gesture
        /\ now' - last_scroll_time >= SCROLL_COOLDOWN)
       => head_gesture_data' = <<current_gesture, "hold">>]_vars

\* C5's case: a repeat-fire inside the cooldown of the hold's trigger.
C5_Witness ==
    /\ called
    /\ branch = "repeat"
    /\ now - last_gesture_time < COOLDOWN_TIME

IsHold(result) == result # None /\ result[2] = "hold"

\* C6 (recalibrate during a hold): once a recalibration that found a hold is
\* followed by a completed calibration, a tracked direction was started after
\* the recalibration, by the call that first detected it and with
\* gesture_triggered false, and a first hold event comes hold_min_time or more
\* after that start.
C6_FreshAfterRecalibrate ==
    [][(recal_at' # NoTime /\ neutral_pitch' # None) =>
         /\ current_gesture' # "none" => gesture_start_time' > recal_at'
         /\ (CallStep /\ current_gesture' # "none"
                      /\ current_gesture' # current_gesture)
            => (gesture_start_time' = now' /\ ~gesture_triggered')
         /\ (CallStep /\ IsHold(head_gesture_data') /\ gesture_type # "hold")
            => /\ now' - gesture_start_time' >= HOLD_MIN_TIME
               /\ gesture_start_time' > recal_at']_vars

\* C6's case: a hold, a recalibration, a new calibration, and a new hold.
C6_Witness ==
    /\ recal_at # NoTime
    /\ neutral_pitch # None
    /\ called
    /\ branch = "hold"

\* C7: right after a recalibrate command is handled, the calibration and the
\* head-gesture state are both reset.
C7_ResetTogether ==
    (recalibrated /\ pc = "frame") =>
        /\ neutral_pitch = None
        /\ neutral_yaw = None
        /\ calibration_count = 0
        /\ pitch_history = <<>>
        /\ yaw_history = <<>>
        /\ current_gesture = "none"
        /\ gesture_start_time = NoTime
        /\ ~gesture_triggered
        /\ gesture_type = "none"

\* Calibrated: both neutral angles are set.
Ready == neutral_pitch # None /\ neutral_yaw # None

\* C8 as claimed: the engine is READY from the frame that pushes the
\* calibration_frames-th sample, not earlier and not later.
C8_ReadyAtFrames == Ready <=> cal_fed >= calibration_frames

\* C8 as amended: calibrate_neutral collects exactly calibration_frames
\* samples, and the engine is READY from the next frame with a face, the one
\* after the frame that pushed the calibration_frames-th sample; only a READY
\* engine calls detect_head_gesture (cal_fed = 0 with called: the 'r' key
\* recalibrated at the end of that frame).
C8_ReadyAfterFrames ==
    /\ Ready <=> cal_fed >= calibration_frames + 1
    /\ calibration_count <= calibration_frames
    /\ ~Ready => calibration_count = cal_fed
    /\ Ready => calibration_count = calibration_frames
    /\ called => (Ready \/ cal_fed = 0)

\* C8's case: the frame that completes a calibration.
C8_Witness ==
    /\ Ready
    /\ called
    /\ Len(cal_raw) = calibration_frames + 1
    /\ calibration_frames = MaxFrames

Column(s, i) == [k \in 1..Len(s) |-> s[k][i]]

\* C9: when calibration completes, the neutral angles are the means of the
\* smoothed samples collected during it.
C9_NeutralIsMean ==
    (Ready /\ cal_pushed # <<>>) =>
        /\ neutral_pitch = Mean(Column(cal_pushed, 1))
        /\ neutral_yaw = Mean(Column(cal_pushed, 2))

\* The calibration state a newly constructed engine reaches on the raw
\* samples s.
RECURSIVE FreshRun(_, _, _)
FreshRun(s, w, frames) ==
    IF s = <<>> THEN FreshCalib
    ELSE LET c0 == FreshRun(SubSeq(s, 1, Len(s) - 1), w, frames)
             x == s[Len(s)]
             sm == smooth_angles(c0.pitch_history, c0.yaw_history,
                                 RInt(x[1]), RInt(x[2]), w)
             c1 == [c0 EXCEPT !.pitch_history = sm.pitch_history,
                              !.yaw_history = sm.yaw_history]
         IN  calibrate_neutral(c1, sm.smooth_pitch, sm.smooth_yaw,
                               w, frames).c

\* C10 (recalibration is a reset): the samples fed since a recalibration, in
\* whatever state it was issued, give the neutral angles, and on the way the
\* calibration state, that the same samples give a newly constructed engine.
C10_RecalibrateIsReset ==
    cal_raw # <<>> =>
        CalibState = FreshRun(cal_raw, SMOOTHING_WINDOW, calibration_frames)

\* C10's case: a calibration completed after a recalibration issued while a
\* gesture was being tracked, with a window longer than one sample.
C10_Witness ==
    /\ Ready
    /\ cal_raw # <<>>
    /\ recal_ctx = "tracking"
    /\ SMOOTHING_WINDOW > 1

\* ------------------------------------------------------ smoothing windows
RawColumn(s, i) == [k \in 1..Len(s) |-> RInt(s[k][i])]

\* C11 (no padding, while calibrating): the k-th smoothed sample since the
\* windows were last empty, k < smoothing_window, is the mean of the k raw
\* samples pushed so far, per axis.
C11_MeanOfPushed ==
    \A k \in 1..Len(cal_pushed) :
        k < SMOOTHING_WINDOW =>
            /\ cal_pushed[k][1] = Mean(RawColumn(SubSeq(cal_raw, 1, k), 1))
            /\ cal_pushed[k][2] = Mean(RawColumn(SubSeq(cal_raw, 1, k), 2))

Min(a, b) == IF a < b THEN a ELSE b

\* The window h became h2 by n pushes: h2 is not longer than w, and what it
\* keeps of h are the newest entries of h, in order.
Pushed(h, h2, n, w) ==
    /\ Len(h2) = Min(Len(h) + n, w)
    /\ \E k \in {IF Len(h2) > n THEN Len(h2) - n ELSE 0} :
          SubSeq(h2, 1, k) = SubSeq(h, Len(h) - k + 1, Len(h))

\* What a frame may make of a window: nothing without a face; empty when the
\* calibration completes or 'r' is pressed; else two pushes (raw, smoothed)
\* while collecting and one push once calibrated.
FrameKeeps(h, h2) ==
    \/ h2 = h /\ (neutral_pitch # None \/ cal_fed' = cal_fed)
    \/ /\ h2 = <<>>
       /\ cal_fed' = 0 \/ (neutral_pitch = None /\ cal_raw' # cal_raw
                             /\ ~Collecting(calibration_count,
                                            calibration_frames))
    \/ /\ cal_fed' # 0
       /\ neutral_pitch = None =>
             Collecting(calibration_count, calibration_frames)
       /\ Pushed(h, h2, IF neutral_pitch = None THEN 2 ELSE 1,
                 SMOOTHING_WINDOW)

\* C12: each smoothing window holds at most smoothing_window samples, the two
\* windows have the same length, and a push into a full window evicts exactly
\* the oldest sample.
C12_WindowsBounded ==
    [][/\ Len(pitch_history') <= SMOOTHING_WINDOW
       /\ Len(yaw_history') = Len(pitch_history')
       /\ pc = "poll" =>
             \/ UNCHANGED <<pitch_history, yaw_history>>
             \/ recalibrated' /\ pitch_history' = <<>> /\ yaw_history' = <<>>
       /\ pc = "frame" =>
             /\ FrameKeeps(pitch_history, pitch_history')
             /\ FrameKeeps(yaw_history, yaw_history')]_vars

\* C12's case: pushes into a full window of three samples.
C12_Witness ==
    /\ SMOOTHING_WINDOW = SmoothWindow
    /\ Len(pitch_history) = SMOOTHING_WINDOW
    /\ calibration_count = MaxFrames
    /\ neutral_pitch = None
    /\ pitch_history[1] # pitch_history[2]

\* ------------------------------------------------------------ hand events
IsEvent(name) == name # "none"

\* The hand events of the last frame so far, in the order of the hands.
LogEvents == SelectSeq(hand_events, IsEvent)

\* The value of a key in a text json_dumps wrote.
Field(text, key) == text[1 + CHOOSE i \in 1..Len(text) : text[i] = key]

\* The gesture names written in the last iteration, in order.
WireNames == [i \in 1..Len(wire) |-> Field(wire[i], "gesture:")]

\* C13 (fast swipe): with the hand cooldown over, an open palm whose x is
\* more than swipe_threshold left of the tracker's start_x, less than
\* swipe_max_time after its start_time, emits swipe_left, once, and clears the
\* tracker; a hand that finds the tracker cleared emits no swipe_left.
C13_FastSwipe ==
    /\ \A i \in 1..Len(hand_log) :
          \E e \in {hand_log[i]} :
             /\ (/\ detect_palm(e.hand)
                 /\ e.start_x # NoX
                 /\ e.start_x - e.hand.x > SWIPE_THRESHOLD
                 /\ e.t - e.start_time < SWIPE_MAX_TIME
                 /\ e.t - e.last > HAND_COOLDOWN)
                => /\ e.event = "swipe_left"
                   /\ e.after_x = NoX
                   /\ e.after_time = NoTime
             /\ e.start_x = NoX => e.event # "swipe_left"
    /\ pc = "poll" => WireNames = LogEvents

\* C13's case: a swipe_left was detected and written.
C13_Witness ==
    /\ \E i \in 1..Len(hand_log) : hand_log[i].event = "swipe_left"
    /\ WireNames = <<"swipe_left">>
    /\ swipe_start_x = NoX

\* C14 as claimed: no swipe_left is emitted at a sample of an open-palm
\* leftward motion whose first sample is swipe_max_time or more before it.
C14_SlowMotionSilent ==
    \A i \in 1..Len(hand_log) :
        \E e \in {hand_log[i]} :
            (e.event = "swipe_left" /\ e.motion # None)
                => e.t - e.motion[2] < SWIPE_MAX_TIME

\* C14 as amended: an open-palm sample that finds the tracker started
\* swipe_max_time or more before emits nothing and re-seeds the tracker to its
\* own x and clock; a swipe_left is emitted only less than swipe_max_time
\* after the tracker's start_time, which a re-seed moves.
C14_TimeoutReseeds ==
    \A i \in 1..Len(hand_log) :
        \E e \in {hand_log[i]} :
            /\ (/\ detect_palm(e.hand)
                /\ e.start_x # NoX
                /\ e.t - e.start_time >= SWIPE_MAX_TIME)
               => /\ e.event = "none"
                  /\ e.after_x = e.hand.x
                  /\ e.after_time = e.t
            /\ e.event = "swipe_left"
               => /\ e.start_x # NoX
                  /\ e.t - e.start_time < SWIPE_MAX_TIME

\* C14's case: a palm far to the left of the tracker's start_x, too late, so
\* that the tracker is re-seeded.
C14_Witness ==
    \E i \in 1..Len(hand_log) :
        \E e \in {hand_log[i]} :
            /\ detect_palm(e.hand)
            /\ e.start_x # NoX
            /\ e.start_x - e.hand.x > SWIPE_THRESHOLD
            /\ e.t - e.start_time >= SWIPE_MAX_TIME
            /\ e.t - e.last > HAND_COOLDOWN
            /\ swipe_start_x = e.hand.x

\* C20: at most one hand event is emitted per frame, over all its hands.
C20_OneHandEvent == Len(LogEvents) <= 1

\* ------------------------------------------------------------ inbound lines
\* The recalibrate command line, as split gives it.
CmdLine == <<CmdHead, CmdTail>>

\* C17: when the first half of a recalibrate line came in an earlier read and
\* a read delivers its rest and the newline, the command is applied by that
\* read.
C17_PartialReadsBuffered ==
    [][(/\ pc = "poll"
        /\ rx_tail = <<CmdHead>>
        /\ rx_parts' # <<>>
        /\ Head(rx_parts') = <<CmdTail>>)
       => recalibrated']_vars

\* C18: every recalibrate line of a read is applied, whatever the other lines
\* of the read are.
C18_LinesIndependent ==
    (/\ pc = "frame"
     /\ \E i \in 1..Len(rx_parts) : rx_parts[i] = CmdLine)
    => recalibrated

\* ----------------------------------------------------------- outbound lines
HeadNames == {mode \o "_" \o dir : mode \in {"nod", "hold"}, dir \in Directions}

HandNames == {"fist", "swipe_left"}

\* The head and hand events detected in this iteration so far, in order.
Detections ==
    (IF head_gesture_data = None THEN <<>> ELSE <<HeadName(head_gesture_data)>>)
    \o LogEvents

\* The texts the calls of send of this iteration wrote, in order.
RECURSIVE Written(_)
Written(log) ==
    IF log = <<>> THEN <<>> ELSE Head(log).wrote \o Written(Tail(log))

C16_ShippedOnce ==
    pc # "frame" =>
        /\ [i \in 1..Len(send_log) |-> send_log[i].data.gesture] = Detections
        /\ \A i \in 1..Len(send_log) :
              /\ send_log[i].wrote \in
                    {<<>>, <<json_dumps(send_log[i].data) \o <<"\n">>>>}
              /\ send_log[i].net = "up" => send_log[i].wrote # <<>>
        /\ wire = Written(send_log)
        /\ Len(wire) <= Len(Detections)

\* C16's case: an iteration detected a head and a hand event and wrote both.
C16_Witness ==
    /\ head_gesture_data # None
    /\ Len(LogEvents) = 1
    /\ Len(wire) = 2

\* The hand state HandStep gives for the hand of a log entry.
HandStateAfter(e) ==
    HandStep([last_hand_gesture_time |-> e.last,
              swipe_start_x |-> e.start_x,
              swipe_start_time |-> e.start_time],
             e.hand, e.t, HAND_COOLDOWN).hs

\* C19: a send that finds the client disconnected makes one connect attempt;
\* when the peer refuses, it writes nothing, and no later send writes more
\* than its own line; the head and the hand state after the detection are
\* what the detection set, whatever became of the send.
C19_DropWhenDisconnected ==
    /\ \A i \in 1..Len(send_log) :
          /\ ~send_log[i].connected => send_log[i].attempts = 1
          /\ (~send_log[i].connected /\ send_log[i].net = "down")
                => send_log[i].wrote = <<>>
          /\ send_log[i].wrote \in
                {<<>>, <<json_dumps(send_log[i].data) \o <<"\n">>>>}
    /\ wire = Written(send_log)
    /\ (pc # "frame" /\ hand_events = <<>> /\ branch \in {"nod", "hold"})
          => /\ last_gesture_time = now
             /\ gesture_triggered
             /\ gesture_type = branch
    /\ \A i \in 1..Len(hand_log) :
          /\ HandsState = HandStateAfter(hand_log[i])
          /\ hand_log[i].event # "none" => last_hand_gesture_time = hand_log[i].t

\* C19's case: the peer refused the reconnect of the send of a hand event.
C19_Witness ==
    /\ \E i \in 1..Len(hand_log) : hand_log[i].event # "none"
    /\ send_log # <<>>
    /\ \E e \in {send_log[Len(send_log)]} :
          /\ e.data.action_type = "hand"
          /\ ~e.connected
          /\ e.net = "down"
          /\ e.attempts = 1
          /\ e.wrote = <<>>
    /\ last_hand_gesture_time = now

\* ----------------------------------------------------------- hand cooldown
\* A step of the loop over the hands that emits a hand event.
HandEmits ==
    /\ pc = "hands"
    /\ Len(hand_events') = Len(hand_events) + 1
    /\ hand_events'[Len(hand_events')] # "none"

\* C21: last_hand_gesture_time is the clock of the last hand event emitted,
\* fist or swipe_left (it changes in the steps that emit one, and only in
\* them), and a hand event is emitted only hand_cooldown or more after it.
C21_HandCooldown ==
    [][/\ HandEmits => /\ now' - last_hand_gesture_time >= HAND_COOLDOWN
                       /\ last_hand_gesture_time' = now'
       /\ ~HandEmits => last_hand_gesture_time' = last_hand_gesture_time]_vars

\* C21's case: under the default cooldown, a fist was emitted after an
\* earlier hand event.
C21_Witness ==
    /\ HAND_COOLDOWN = HAND_COOLDOWN_TIME
    /\ \E i \in 1..Len(hand_log) :
          /\ hand_log[i].event = "fist"
          /\ hand_log[i].last >= Epoch

\* ------------------------------------------------------ calibration gating
\* C22: a recalibrate command leaves the engine calibrating; a frame that
\* finds it still collecting calls no detection and emits no head event;
\* detect_head_gesture is called only with the neutral pose set (a
\* recalibration by key may follow the call in the same iteration); and a
\* head event comes from a call only.
C22_GatedWhileCalibrating ==
    [][/\ (pc = "poll" /\ recalibrated')
          => /\ neutral_pitch' = None
             /\ neutral_yaw' = None
             /\ calibration_count' = 0
       /\ pc = "frame"
          => /\ (~Ready /\ Collecting(calibration_count, calibration_frames))
                => (~called' /\ head_gesture_data' = None)
             /\ called' => (Ready' \/ (Ready /\ calibration_count' = 0)
                                   \/ (~Collecting(calibration_count,
                                                   calibration_frames)
                                       /\ calibration_count' = 0))
             /\ head_gesture_data' # None => called']_vars

\* C22's case: a recalibrate command found the engine tracking or holding, and
\* a frame with a face has been collected since, without a call.
C22_Witness ==
    /\ pc = "poll"
    /\ ~Ready
    /\ recal_ctx \in {"tracking", "hold"}
    /\ cal_fed >= 1
    /\ current_gesture # "none"
    /\ ~called
    /\ head_gesture_data = None

\* C23: neutral_pitch is set exactly when neutral_yaw is, in every state.
C23_NeutralTogether == (neutral_pitch = None) <=> (neutral_yaw = None)

\* C23's case: a calibrated engine was recalibrated, and both are unset.
C23_Witness ==
    /\ neutral_pitch = None
    /\ neutral_yaw = None
    /\ recal_ctx \in {"idle", "tracking", "hold"}

\* ----------------------------------------------------------- configuration
\* The file gives option k: it is a JSON object whose detection section is a
\* mapping that holds k.
Gives(file, k) ==
    /\ file.kind = "object"
    /\ file.detection.kind = "map"
    /\ k \in DOMAIN file.detection.map

NoFaceFrame ==
    \E more \in BOOLEAN, dt \in 1..MaxDt :
        Frame(FALSE, <<0, 0>>, more, dt, "none", "up")

\* C24: a frame without a face leaves the smoothing windows, the calibration
\* and the head gesture state as they were; the part of a frame before the
\* loop over the hands, face or not, leaves the swipe tracker and
\* last_hand_gesture_time as they were, so a frame without a hand does; and
\* the loop over the hands leaves the windows, the calibration and the head
\* gesture state as they were.
C24_PathsIndependent ==
    [][/\ NoFaceFrame => UNCHANGED <<calib, head>>
       /\ pc = "frame" => UNCHANGED hands_state
       /\ pc = "hands" => UNCHANGED <<calib, head>>]_vars

\* C24's case: a calibrated engine that tracks a direction and a palm has
\* seen a frame without a face and without a hand.
C24_Witness ==
    /\ pc = "poll"
    /\ hand_events = <<>>
    /\ Ready
    /\ ~called
    /\ current_gesture # "none"
    /\ swipe_start_x # NoX

\* --------------------------------------------------------- axis arbitration
\* The direction the last call of detect_head_gesture detected, as its path
\* shows it (the call went past the cooldown test).
Detected ==
    IF branch \in {"start", "hold", "repeat", "continue"}
    THEN current_gesture ELSE "none"

\* The angles of that call relative to neutral.
RelPitch == RSub(Mean(pitch_history), neutral_pitch)

RelYaw == RSub(Mean(yaw_history), neutral_yaw)

\* |rel_yaw| > 1.2 |rel_pitch|, and |rel_pitch| > 0.6 |rel_yaw|.
YawDominates == RLess(RScale(RAbs(RelPitch), 6, 5), RAbs(RelYaw))

PitchDominates == RLess(RScale(RAbs(RelYaw), 3, 5), RAbs(RelPitch))

\* A state right after a call that went past the cooldown test, the windows
\* holding its samples (the call that completes a calibration clears them).
AfterCall ==
    /\ pc = "poll"
    /\ called
    /\ Ready
    /\ branch # "cooldown"
    /\ pitch_history # <<>>

\* What both statements say of left and right.
Horizontal ==
    /\ Detected = "right"
          <=> (YawDominates /\ RLess(RInt(YAW_THRESHOLD), RelYaw))
    /\ Detected = "left"
          <=> (YawDominates /\ RLess(RelYaw, RInt(-YAW_THRESHOLD)))

\* C27 as claimed: left or right exactly when the yaw dominates and exceeds
\* its threshold, down or up exactly when the pitch dominates and exceeds
\* its threshold.
C27_AxisExactly ==
    AfterCall =>
        /\ Horizontal
        /\ Detected = "down"
              <=> (PitchDominates /\ RLess(RInt(PITCH_THRESHOLD), RelPitch))
        /\ Detected = "up"
              <=> (PitchDominates /\ RLess(RelPitch, RInt(-PITCH_THRESHOLD)))

\* C27 as amended: the yaw is tested first; down or up exactly when the yaw
\* does not dominate, the pitch does and exceeds its threshold.
C27_YawFirst ==
    AfterCall =>
        /\ Horizontal
        /\ Detected = "down"
              <=> (/\ ~YawDominates
                   /\ PitchDominates
                   /\ RLess(RInt(PITCH_THRESHOLD), RelPitch))
        /\ Detected = "up"
              <=> (/\ ~YawDominates
                   /\ PitchDominates
                   /\ RLess(RelPitch, RInt(-PITCH_THRESHOLD)))

\* C27's case: both angles dominate, the pitch exceeds its threshold and the
\* yaw does not exceed its own; nothing is detected.
C27_Witness ==
    /\ AfterCall
    /\ YawDominates
    /\ PitchDominates
    /\ RLess(RInt(PITCH_THRESHOLD), RAbs(RelPitch))
    /\ ~RLess(RInt(YAW_THRESHOLD), RAbs(RelYaw))
    /\ Detected = "none"

\* ------------------------------------------------------- direction changes
\* C28: a call of detect_head_gesture that detects a direction other than
\* current_gesture (none included) returns no event, and tracking starts
\* again: current_gesture is the new direction, gesture_start_time the call's
\* clock, gesture_triggered false, gesture_type none, and max_deviation the
\* call's own deviation on the new direction's axis.
C28_ChangeResets ==
    [][LET rel_pitch == RSub(Mean(pitch_history'), neutral_pitch')
           rel_yaw == RSub(Mean(yaw_history'), neutral_yaw')
           d == DetectDirection(rel_pitch, rel_yaw)
       IN  (/\ CallStep
            /\ pitch_history' # <<>>
            /\ ~InCooldown(gesture_type, now', last_gesture_time)
            /\ d # "none"
            /\ d # current_gesture)
           => /\ head_gesture_data' = None
              /\ current_gesture' = d
              /\ gesture_start_time' = now'
              /\ ~gesture_triggered'
              /\ gesture_type' = "none"
              /\ max_deviation' = IF d \in {"left", "right"}
                                  THEN RAbs(rel_yaw) ELSE RAbs(rel_pitch)
              /\ UNCHANGED <<last_gesture_time, last_scroll_time>>]_vars

\* C28's case: a hold in progress was left for another direction, one tick
\* after it fired, and the new direction's deviation is less than the old
\* one's.
C28_Witness ==
    /\ AfterCall
    /\ branch = "start"
    /\ last_trigger = now - 1
    /\ current_gesture \in {"up", "down"}
    /\ max_deviation = RInt(13)
    /\ head_gesture_data = None

\* ------------------------------------------------------------- repeat-fire
\* C29: once a hold on left or right has fired, no call emits anything for as
\* long as the hold lasts, however long the direction is sustained; a hold on
\* up or down whose direction is still detected emits (direction, hold)
\* again at every call that finds the scroll cooldown over, and at no other.
C29_RepeatOnlyVertical ==
    [][LET rel_pitch == RSub(Mean(pitch_history'), neutral_pitch')
           rel_yaw == RSub(Mean(yaw_history'), neutral_yaw')
       IN  (CallStep /\ gesture_type = "hold" /\ pitch_history' # <<>>)
           => /\ current_gesture \in {"left", "right"}
                    => head_gesture_data' = None
              /\ (/\ current_gesture \in {"up", "down"}
                  /\ DetectDirection(rel_pitch, rel_yaw) = current_gesture)
                    => /\ gesture_type' = "hold"
                       /\ head_gesture_data' =
                              IF now' - last_scroll_time >= SCROLL_COOLDOWN
                              THEN <<current_gesture, "hold">> ELSE None]_vars

\* C29's case: a hold on left or right is sustained for the scroll cooldown
\* and more after it fired, and nothing is emitted.
C29_Witness ==
    /\ AfterCall
    /\ gesture_type = "hold"
    /\ current_gesture \in {"left", "right"}
    /\ branch = "continue"
    /\ now - last_trigger >= SCROLL_COOLDOWN
    /\ head_gesture_data = None

\* --------------------------------------------------------- the closed palm
\* C30: a hand that is no open palm (fewer than three fingers extended)
\* leaves the swipe tracker cleared and gives no swipe_left; the next hand
\* finds the tracker cleared, and a swipe_left after it starts from a
\* tracker seeded no earlier than it.
C30_ClosedPalmClears ==
    /\ \A i \in 1..Len(hand_log) :
          hand_log[i].hand.ext < 3
            => /\ hand_log[i].after_x = NoX
               /\ hand_log[i].after_time = NoTime
               /\ hand_log[i].event # "swipe_left"
               /\ i < Len(hand_log) => hand_log[i + 1].start_x = NoX
               /\ i = Len(hand_log)
                     => swipe_start_x = NoX /\ swipe_start_time = NoTime
               /\ \A j \in (i + 1)..Len(hand_log) :
                     hand_log[j].event = "swipe_left"
                       => hand_log[j].start_time >= hand_log[i].t

\* C30's case: a hand that is no open palm found the tracker seeded by an
\* open palm far enough to its right, in time for a swipe.
C30_Witness ==
    \E i \in 1..Len(hand_log) :
        /\ hand_log[i].hand.ext < 3
        /\ hand_log[i].start_x # NoX
        /\ hand_log[i].t - hand_log[i].start_time < SWIPE_MAX_TIME
        /\ hand_log[i].after_x = NoX
        /\ swipe_start_x = NoX

\* ------------------------------------------------------ calibration liveness
\* An iteration that neither recalibrates nor misses the face: a poll without
\* a command, or a frame with a face and without the 'r' key.
FaceOn ==
    \/ PollLines({<<>>})
    \/ \E pose \in {<<0, 0>>, <<0, 25>>} : LiveFrame(TRUE, pose, "none")

\* C26: a frame without a face leaves a calibrating engine calibrating, with
\* the samples it has, calls no detection and emits nothing; and if from
\* some point on every frame shows a face and nothing recalibrates, the
\* engine is calibrated from some point on.
C26_CalibrationLiveness ==
    /\ [][/\ (~Ready /\ \E key \in Keys : LiveFrame(FALSE, <<0, 0>>, key))
              => ~Ready' /\ ~called' /\ head_gesture_data' = None
          /\ (~Ready /\ LiveFrame(FALSE, <<0, 0>>, "none"))
              => UNCHANGED calib]_vars
    /\ <>[][FaceOn]_vars => <>[]Ready

\* C26's case: a calibration that a recalibration started has just
\* completed.
C26_Witness ==
    /\ Ready
    /\ pc = "poll"
    /\ cal_fed > calibration_frames
    /\ recal_ctx # "none"

\* ------------------------------------------------------- one tracker per hand
\* C31 as claimed: a swipe_left is never computed from a start_x recorded
\* from another hand.  The hands of one frame are different hands: when a
\* hand of the frame has seeded the tracker, the next hand of that frame
\* emits no swipe_left.
C31_TrackerPerHand ==
    [][(/\ pc = "hands"
        /\ hand_log # <<>>
        /\ hand_log[1].after_x # NoX
        /\ hand_log[1].after_time = hand_log[1].t)
       => ~(/\ HandEmits
            /\ hand_events'[Len(hand_events')] = "swipe_left")]_vars

\* ------------------------------------------------- the command and the frame
\* C32: the poll that finds a recalibrate command leaves the neutral pose
\* unset, calibration_count 0 and both windows empty, before the frame of
\* its iteration; that frame, when it shows a face, calls no detection and
\* emits nothing, and its sample is the first of the new calibration: the
\* count is 1 and the windows hold nothing but that sample.
C32_CommandBeforeFrame ==
    [][/\ (pc = "poll" /\ recalibrated')
            => /\ pc' = "frame"
               /\ neutral_pitch' = None
               /\ neutral_yaw' = None
               /\ calibration_count' = 0
               /\ pitch_history' = <<>>
               /\ yaw_history' = <<>>
       /\ (pc = "frame" /\ recalibrated /\ cal_fed' = 1)
            => /\ ~called'
               /\ head_gesture_data' = None
               /\ neutral_pitch' = None
               /\ calibration_count' = 1
               /\ Len(cal_raw') = 1
               /\ pitch_history' # <<>>
               /\ \A k \in 1..Len(pitch_history') :
                     /\ pitch_history'[k] = RInt(cal_raw'[1][1])
                     /\ yaw_history'[k] = RInt(cal_raw'[1][2])]_vars

\* C32's case: the command found a calibrated engine, and the frame of that
\* iteration showed a head turned beyond the threshold.
C32_Witness ==
    /\ pc = "poll"
    /\ recalibrated
    /\ cal_fed = 1
    /\ recal_ctx \notin {"none", "calibrating"}
    /\ cal_raw = << <<0, 25>> >>
    /\ SMOOTHING_WINDOW = SmoothWindow

\* ------------------------------------------------------ head state shape
\* C33: current_gesture is unset exactly when gesture_start_time is unset.
C33_StartWithGesture ==
    current_gesture = "none" <=> gesture_start_time = NoTime

\* C33's case: a direction is tracked while the engine calibrates again
\* after a recalibration.
C33_Witness ==
    /\ current_gesture # "none"
    /\ gesture_start_time # NoTime
    /\ ~Ready
    /\ cal_fed > 0

\* C34: in a hold the gesture has triggered and its direction is set; after
\* a nod the gesture has triggered and no direction is set.
C34_TypeShape ==
    /\ gesture_type = "hold"
          => gesture_triggered /\ current_gesture # "none"
    /\ gesture_type = "nod"
          => gesture_triggered /\ current_gesture = "none"

\* C34's case: a nod was just given, after an earlier nod or hold.
C34_Witness ==
    /\ gesture_type = "nod"
    /\ gesture_triggered
    /\ current_gesture = "none"
    /\ prev_hold = None
    /\ last_trigger = now
    /\ trigger_gap # NoTime

\* ------------------------------------------------------ calls in the cooldown
\* C35: a call of detect_head_gesture made while gesture_type is not hold and
\* less than cooldown_time after last_gesture_time returns no event and
\* leaves the head gesture state as it was, whatever the pose.
C35_CooldownFreezes ==
    [][(/\ CallStep
        /\ gesture_type # "hold"
        /\ now' - last_gesture_time < COOLDOWN_TIME)
       => /\ head_gesture_data' = None
          /\ UNCHANGED head]_vars

\* C35's case: a call in the cooldown saw the head back at neutral while a
\* direction was tracked, and the direction is still tracked.
C35_Witness ==
    /\ pc = "poll"
    /\ called
    /\ branch = "cooldown"
    /\ current_gesture # "none"
    /\ gesture_start_time < now
    /\ pitch_history = <<RInt(0)>>
    /\ yaw_history = <<RInt(0)>>

\* --------------------------------------------------- swipes in the cooldown
\* C36 as claimed: an open palm that completes a leftward swipe (more than
\* swipe_threshold left of the tracker's start_x, less than swipe_max_time
\* after its start_time) either emits swipe_left or leaves the tracker as it
\* found it.
C36_SwipeNotLost ==
    \A i \in 1..Len(hand_log) :
        (/\ hand_log[i].hand.ext >= 3
         /\ hand_log[i].start_x # NoX
         /\ hand_log[i].start_x - hand_log[i].hand.x > SWIPE_THRESHOLD
         /\ hand_log[i].t - hand_log[i].start_time < SWIPE_MAX_TIME)
        => \/ hand_log[i].event = "swipe_left"
           \/ /\ hand_log[i].after_x = hand_log[i].start_x
              /\ hand_log[i].after_time = hand_log[i].start_time

\* ------------------------------------------------------------ other lines
\* C37 as claimed: a read none of whose lines is handled as a recalibrate
\* command leaves the engine state and the connection as they were, and the
\* loop goes on to the frame.
C37_OtherLinesHarmless ==
    [][(pc = "poll" /\ ~recalibrated')
       => /\ pc' = "frame"
          /\ UNCHANGED <<calib, head, hands_state, connected>>]_vars

\* ------------------------------------------------------- server lifecycle
\* Server threads inside the accept loop with self.running set: they accept
\* on self.server_socket or serve a connection.
Serving == {i \in 1..Len(server_threads) :
               /\ running
               /\ server_threads[i] \in {"check", "accept", "serve"}}

\* C38 as claimed: at no time are two server threads in the accept loop of
\* the same GestureServer.
C38_OneServerThread == Cardinality(Serving) <= 1

\* ------------------------------------------------------------ worker port
\* C39 as claimed: the worker is launched with the port that the thread
\* started by the same start has bound, never 0 and never an earlier one.
C39_WorkerPort ==
    worker_process # None => worker_process.port = worker_process.start

\* --------------------------------------------------------------- dispatch
\* DEFAULT_CONFIG["gestures"] of config_ui.py.
DEFAULT_GESTURES ==
    [g \in {"nod_right", "nod_left", "nod_up", "nod_down", "hold_down",
            "hold_up", "hold_left", "hold_right", "fist", "swipe_left"} |->
        CASE g = "nod_right" -> "action_answer_good"
          [] g = "nod_left" -> "action_answer_again"
          [] g = "nod_up" -> "action_hard"
          [] g = "nod_down" -> "action_easy"
          [] g = "hold_down" -> "action_scroll_down"
          [] g = "hold_up" -> "action_scroll_up"
          [] g = "hold_left" -> "action_bury"
          [] g = "hold_right" -> "action_suspend"
          [] g = "fist" -> "action_toggle_review"
          [] g = "swipe_left" -> "action_undo"]

\* The keys of self.available_methods.
available_methods ==
    {"action_answer_good", "action_answer_again", "action_answer_easy",
     "action_answer_hard", "action_scroll_down", "action_scroll_up",
     "action_toggle_review", "action_undo", "action_bury", "action_suspend",
     "action_recalibrate", "action_none"}

\* load_config when the add-on manager has no configuration: the gesture
\* map is the default one.
gesture_map == DEFAULT_GESTURES

\* dict.get: "" stands for None, which handle_message treats alike.
MapGet(map, key) == IF key \in DOMAIN map THEN map[key] ELSE ""

\* The names the worker sends: f"{gesture_type}_{direction}" of the head,
\* and the two of the hand.
EmittedNames ==
    {kind \o "_" \o direction :
        kind \in {"nod", "hold"}, direction \in Directions}
    \cup {"fist", "swipe_left"}

\* Gestures in the messages handled: the emitted ones, one that no worker
\* sends, and "" for a message without the key.
MessageGestures == EmittedNames \cup {"wave", ""}

\* The methods handle_message hands to run_on_main for a gesture.
MethodsRun(gesture) ==
    LET action_name == MapGet(gesture_map, gesture)
    IN  IF action_name # "" /\ action_name \in available_methods
        THEN {action_name}
        ELSE {}

\* handle_message on a line that is a JSON object.
handle_message(gesture) ==
    /\ Len(dispatched) < MaxDispatch
    /\ dispatched' = Append(dispatched, [gesture |-> gesture,
                                         ran |-> MethodsRun(gesture)])
    /\ UNCHANGED <<server_socket, port, running, worker_process, active_conn,
                   server_threads, closed_sockets, host_pc>>
    /\ UNCHANGED <<SMOOTHING_WINDOW, calibration_frames, construction, calib,
                   head, head_gesture_data, now, pc, observed, HAND_COOLDOWN,
                   hands_state, channel, observed_io>>

\* handle_message on a line that is no JSON: JSONDecodeError is passed over.
handle_malformed ==
    /\ Len(dispatched) < MaxDispatch
    /\ dispatched' = Append(dispatched, [gesture |-> "", ran |-> {}])
    /\ UNCHANGED <<server_socket, port, running, worker_process, active_conn,
                   server_threads, closed_sockets, host_pc>>
    /\ UNCHANGED <<SMOOTHING_WINDOW, calibration_frames, construction, calib,
                   head, head_gesture_data, now, pc, observed, HAND_COOLDOWN,
                   hands_state, channel, observed_io>>

InitDispatch == Start({1}, {1}, {HAND_COOLDOWN_TIME}, {TRUE})

NextDispatch ==
    \/ \E gesture \in MessageGestures : handle_message(gesture)
    \/ handle_malformed

SpecDispatch == InitDispatch /\ [][NextDispatch]_vars

\* C40 as claimed: under the default configuration every gesture name the
\* worker can emit is handed to exactly one host method.
C40_EveryGestureDispatched ==
    \A i \in 1..Len(dispatched) :
        dispatched[i].gesture \in EmittedNames
            => Cardinality(dispatched[i].ran) = 1

====
